---------------------------- MODULE Spec2Model ----------------------------
(***************************************************************************)
(* qwick: a static key-value store in one memory-mapped file.              *)
(*                                                                         *)
(* The model works on the bytes of the file.  A file is a sequence of      *)
(* bytes (0..255); the header is 64 bytes, an index entry 24 bytes, every  *)
(* integer field little-endian, exactly as BuildWithOptions writes them    *)
(* and Open / readIndex read them.                                         *)
(*                                                                         *)
(* Five specifications share the variables:                                *)
(*   Spec        BuildWithOptions run step by step (one step per I/O call, *)
(*               each of which may fail), with Open of the target path     *)
(*               running concurrently;                                     *)
(*   SpecOpen    Open as a function of the bytes found at a path;          *)
(*   SpecReader  the methods of MMAPDB (GetRaw, Find, Prefix, Close) as    *)
(*               functions of the receiver.                                *)
(*   SpecParallel  GetRaw, Find and Prefix called by two goroutines on one *)
(*               reader, sharing the decoder zstdDec;                      *)
(*   SpecArchive the archive codec (ZipEncrypt / UnzipDecrypt), modelled   *)
(*               from its specification.                                   *)
(***************************************************************************)
EXTENDS Integers, Sequences, FiniteSets, TLC

VARIABLES
    tree,      \* the ordered source: sequence of [k, v], ascending by key
    opts,      \* BuildOptions: [Compression, SizeCutover]
    disk,      \* [target, tmp]: what path and path+".tmp" hold
    bpc,       \* position of BuildWithOptions
    fpos,      \* file position of f (the temporary file)
    indices,   \* the builder's in-memory slice of idx records
    bres,      \* what BuildWithOptions returned: "running", "ok", "error"
    bi,        \* number of index records the build has written
    ent,       \* koff and voff of the callback of ForEach that is running
    faults,    \* the I/O calls of the build that failed, in order
    openRes,   \* result of the last Open: [err, db, m]
    db,        \* the reader (MMAPDB) of SpecReader
    res,       \* result of the last GetRaw / Find on db
    ppc,       \* position of Prefix: "idle", "loop", "done", "panic"
    pprefix,   \* the prefix argument of the running Prefix call
    pi,        \* loop variable i of Prefix
    visited,   \* the (key, value) pairs handed to the callback, in order
    reads,     \* the index entries Prefix has read through getKeySlice /
               \* getValSlice in its loop, in order
    stopped,   \* TRUE once the callback has returned false
    asrc,      \* archive codec: the bytes of the source (plaintext) file
    ekey,      \* the master key given to encrypt
    arch,      \* the bytes of the archive file
    epos,      \* the source offset encrypt has reached
    tamper,    \* what happened to the archive after encrypt: "none",
               \* "flip" (one bit changed), "cut" (truncated)
    dkey,      \* the master key given to decrypt
    dpos,      \* the archive offset decrypt has reached
    adst,      \* the bytes of the destination file of decrypt
    apc,       \* "idle", "encrypt", "sealed", "decrypt", "done"
    aerr,      \* the error of the archive operation that ended last
    th,        \* SpecParallel: the call each goroutine is in
    zdec       \* zstdDec: its free block decoders and the frame of each

inputVars  == <<tree, opts>>
buildVars  == <<disk, bpc, fpos, indices, bi, ent, bres, faults>>
readerVars == <<db, res, ppc, pprefix, pi, visited, reads, stopped>>
archiveVars == <<asrc, ekey, arch, epos, tamper, dkey, dpos, adst, apc, aerr>>
threadVars == <<th, zdec>>
vars == <<tree, opts, disk, bpc, fpos, indices, bi, ent, bres, faults,
          openRes, db, res, ppc, pprefix, pi, visited, reads, stopped,
          asrc, ekey, arch, epos, tamper, dkey, dpos, adst, apc, aerr,
          th, zdec>>

-----------------------------------------------------------------------------
(* Constants of the file format, src/qwick.go:19-33.                       *)

\* FileMagic = "QWICK2026": the nine bytes Q W I C K 2 0 2 6.
FileMagic == <<81, 87, 73, 67, 75, 50, 48, 50, 54>>

FileVersion == 1

headerSize == 64

compNone == 0

compZstd == 1

compS2 == 2

indexEntrySize == 24

\* The value-format tag the builder writes at header bytes 40..44.
ValueFmtGeneric == 100

\* What a path holds: no file, or a file with its bytes.
NoFile == [exists |-> FALSE, bytes |-> <<>>]

File(b) == [exists |-> TRUE, bytes |-> b]

\* The nil *MMAPDB.
NoReader == [nil |-> TRUE]

-----------------------------------------------------------------------------
(* Bytes and little-endian integers.                                       *)

\* n copies of the byte c.
Repeat(c, n) == [i \in 1..n |-> c]

Zeros(n) == Repeat(0, n)

\* m[lo:hi] of Go for 0 <= lo <= hi <= len(m) (0-based, hi exclusive).
Slice(m, lo, hi) == SubSeq(m, lo + 1, hi)

\* copy(dst, src): copies min(len(dst), len(src)) bytes, the rest of dst stays.
Copy(dst, src) ==
    [i \in 1..Len(dst) |-> IF i <= Len(src) THEN src[i] ELSE dst[i]]

\* binary.LittleEndian.PutUint32 / PutUint64: the w bytes of n, lowest first.
RECURSIVE PutLE(_, _)
PutLE(n, w) == IF w = 0 THEN <<>> ELSE <<n % 256>> \o PutLE(n \div 256, w - 1)

\* A little-endian field whose value is below 2^24 (bytes 4.. are zero).
IsSmall(b) == \A i \in 1..Len(b) : i > 3 => b[i] = 0

\* The value of a little-endian field that IsSmall.
SmallVal(b) ==
    (IF Len(b) >= 1 THEN b[1] ELSE 0)
    + (IF Len(b) >= 2 THEN 256 * b[2] ELSE 0)
    + (IF Len(b) >= 3 THEN 65536 * b[3] ELSE 0)

\* uint64(x) of a uint32 x: four zero bytes on top.
Widen(b) == b \o Zeros(8 - Len(b))

\* a + b on uint64 (eight little-endian bytes each), wrapping at 2^64.
RECURSIVE AddLE(_, _, _)
AddLE(a, b, carry) ==
    IF Len(a) = 0 THEN <<>>
    ELSE LET s == a[1] + b[1] + carry
         IN  <<s % 256>> \o AddLE(Tail(a), Tail(b), s \div 256)

U64Add(a, b) == AddLE(a, b, 0)

\* Bitwise exclusive or of two bytes.
RECURSIVE Xor(_, _)
Xor(a, b) ==
    IF a = 0 /\ b = 0 THEN 0
    ELSE ((a + b) % 2) + 2 * Xor(a \div 2, b \div 2)

\* a ^ b on uint64.
U64Xor(a, b) ==
    <<Xor(a[1], b[1]), Xor(a[2], b[2]), Xor(a[3], b[3]), Xor(a[4], b[4]),
      Xor(a[5], b[5]), Xor(a[6], b[6]), Xor(a[7], b[7]), Xor(a[8], b[8])>>

\* The sum of a[i] * b[k + 1 - i] for i in 1..k: column k of the long
\* multiplication of a and b.
RECURSIVE MulColumn(_, _, _, _)
MulColumn(a, b, k, i) ==
    IF i > k THEN 0 ELSE a[i] * b[k + 1 - i] + MulColumn(a, b, k, i + 1)

RECURSIVE MulLE(_, _, _, _)
MulLE(a, b, k, carry) ==
    IF k > 8 THEN <<>>
    ELSE LET s == carry + MulColumn(a, b, k, 1)
         IN  <<s % 256>> \o MulLE(a, b, k + 1, s \div 256)

\* a * b on uint64, wrapping at 2^64.
U64Mul(a, b) == MulLE(a, b, 1, 0)

\* bits.RotateLeft64(x, r) for 0 <= r < 64: the bytes move up by r / 8
\* places, then every byte takes the top r % 8 bits of the byte below it.
RotL(x, r) ==
    LET q == r \div 8
        p == 2 ^ (r % 8)
        y(i) == x[((i + 7 - q) % 8) + 1]
        z(i) == ((y(i) * p) % 256) + (y(((i + 6) % 8) + 1) \div (256 \div p))
    IN  <<z(1), z(2), z(3), z(4), z(5), z(6), z(7), z(8)>>

\* x >> r on uint64 for 0 <= r < 64.
ShiftR(x, r) ==
    LET q == r \div 8
        p == 2 ^ (r % 8)
        y(i) == IF i + q <= 8 THEN x[i + q] ELSE 0
        z(i) == (y(i) \div p) + ((y(i + 1) % p) * (256 \div p))
    IN  <<z(1), z(2), z(3), z(4), z(5), z(6), z(7), z(8)>>

\* a <= b on little-endian fields of equal width.
RECURSIVE LeqLE(_, _)
LeqLE(a, b) ==
    IF Len(a) = 0 THEN TRUE
    ELSE LET n == Len(a)
         IN  IF a[n] # b[n] THEN a[n] < b[n]
             ELSE LeqLE(SubSeq(a, 1, n - 1), SubSeq(b, 1, n - 1))

\* bytes.Compare(a, b): -1, 0 or 1.
RECURSIVE Compare(_, _)
Compare(a, b) ==
    IF Len(a) = 0 THEN (IF Len(b) = 0 THEN 0 ELSE -1)
    ELSE IF Len(b) = 0 THEN 1
    ELSE IF a[1] < b[1] THEN -1
    ELSE IF a[1] > b[1] THEN 1
    ELSE Compare(Tail(a), Tail(b))

\* bytes.HasPrefix(s, prefix).
HasPrefix(s, prefix) ==
    Len(s) >= Len(prefix) /\ SubSeq(s, 1, Len(prefix)) = prefix

\* f.Write(data) at file position pos: bytes past the end are appended, a
\* gap left by an earlier Seek reads as zeros.  A write of no bytes leaves
\* the file as it is: a Seek past the end alone does not extend it.
WriteAt(f, pos, data) ==
    IF Len(data) = 0 THEN f
    ELSE LET before == IF pos <= Len(f) THEN SubSeq(f, 1, pos)
                       ELSE f \o Zeros(pos - Len(f))
             after == SubSeq(f, pos + Len(data) + 1, Len(f))
         IN  before \o data \o after

-----------------------------------------------------------------------------
(* The codecs.  s2 and zstd are libraries outside the repository; the      *)
(* model keeps their framing, which is what the builder and Find depend    *)
(* on: what the encoder emits for a short value, and which byte strings    *)
(* the decoder accepts.                                                    *)

\* binary.Uvarint on the first bytes of b: [n, used]; used = 0 when b ends
\* inside the varint.  Varints of five bytes or more announce at least 2^28
\* bytes, which no block of the model can hold: they are reported as failing.
RECURSIVE UvarintFrom(_, _, _, _)
UvarintFrom(b, i, mult, acc) ==
    IF i > Len(b) \/ i > 4 THEN [n |-> 0, used |-> 0]
    ELSE IF b[i] < 128 THEN [n |-> acc + mult * b[i], used |-> i]
    ELSE UvarintFrom(b, i + 1, mult * 128, acc + mult * (b[i] - 128))

Uvarint(b) == UvarintFrom(b, 1, 1, 0)

\* s2.Encode(nil, v) for len(v) < 32 (minNonLiteralBlockSize): the varint of
\* len(v), then, unless v is empty, one literal element: the tag
\* (len(v)-1)<<2 | tagLiteral and the bytes of v.
S2Encode(v) ==
    <<Len(v)>> \o (IF Len(v) = 0 THEN <<>> ELSE <<(Len(v) - 1) * 4>> \o v)

\* The element loop of s2.Decode from 0-based position s of src, with d bytes
\* decoded so far out of dLen: [ok, out].  A literal element (tag%4 = 0) holds
\* its length in the tag (x < 60) or in the x-59 bytes after it; a copy
\* element (tag%4 # 0) needs at least four decoded bytes of history or ends
\* past the source in every block the model stores, so it is corrupt.
RECURSIVE S2Elements(_, _, _, _)
S2Elements(src, s, d, dLen) ==
    IF s >= Len(src) THEN [ok |-> d = dLen, out |-> <<>>]
    ELSE LET tag == src[s + 1]
             x == tag \div 4
             nb == IF x < 60 THEN 0 ELSE x - 59
             lenBytes == IF s + 1 + nb <= Len(src)
                         THEN Slice(src, s + 1, s + 1 + nb) ELSE <<>>
             length == IF x < 60 THEN x + 1 ELSE SmallVal(lenBytes) + 1
             s2 == s + 1 + nb
         IN  IF tag % 4 # 0 THEN [ok |-> FALSE, out |-> <<>>]
             ELSE IF s2 > Len(src) \/ ~IsSmall(lenBytes)
                 THEN [ok |-> FALSE, out |-> <<>>]
             ELSE IF length > dLen - d \/ length > Len(src) - s2
                 THEN [ok |-> FALSE, out |-> <<>>]
             ELSE LET rest == S2Elements(src, s2 + length, d + length, dLen)
                  IN  [ok |-> rest.ok,
                       out |-> Slice(src, s2, s2 + length) \o rest.out]

\* s2.Decode(dst[:0], src): [ok, out]; ok = FALSE is a non-nil error.
S2Decode(src) ==
    LET hd == Uvarint(src)
    IN  IF hd.used = 0 THEN [ok |-> FALSE, out |-> <<>>]
        ELSE LET r == S2Elements(src, hd.used, 0, hd.n)
             IN  IF r.ok THEN r ELSE [ok |-> FALSE, out |-> <<>>]

\* The zstd frame magic 0xFD2FB528, little-endian.
ZstdMagic == <<40, 181, 47, 253>>

\* The primes of XXH64, as uint64.
Prime1 == <<135, 202, 235, 133, 177, 121, 55, 158>>

Prime2 == <<79, 235, 212, 39, 61, 174, 178, 194>>

Prime3 == <<249, 121, 55, 158, 177, 103, 86, 22>>

Prime4 == <<99, 174, 178, 194, 119, 202, 235, 133>>

Prime5 == <<197, 103, 86, 22, 47, 235, 212, 39>>

\* round(acc, input) of XXH64.
XXHRound(acc, input) ==
    U64Mul(RotL(U64Add(acc, U64Mul(input, Prime2)), 31), Prime1)

\* mergeRound(acc, val) of XXH64.
XXHMergeRound(acc, val) ==
    U64Add(U64Mul(U64Xor(acc, XXHRound(Zeros(8), val)), Prime1), Prime4)

\* The four accumulators after every whole 32-byte stripe of b.  (Here and
\* in XXHTail the test on the length of the accumulator is always false; it
\* makes TLC compute one step before it starts the next.)
RECURSIVE XXHStripes(_, _)
XXHStripes(acc, b) ==
    IF Len(acc) # 4 \/ Len(b) < 32 THEN acc
    ELSE XXHStripes(<<XXHRound(acc[1], SubSeq(b, 1, 8)),
                      XXHRound(acc[2], SubSeq(b, 9, 16)),
                      XXHRound(acc[3], SubSeq(b, 17, 24)),
                      XXHRound(acc[4], SubSeq(b, 25, 32))>>,
                    SubSeq(b, 33, Len(b)))

\* The bytes left after the stripes, folded into h eight, four and one at
\* a time.
RECURSIVE XXHTail(_, _)
XXHTail(h, b) ==
    IF Len(h) # 8 \/ Len(b) = 0 THEN h
    ELSE IF Len(b) >= 8
        THEN XXHTail(U64Add(U64Mul(RotL(U64Xor(h, XXHRound(Zeros(8),
                                                       SubSeq(b, 1, 8))),
                                        27), Prime1), Prime4),
                     SubSeq(b, 9, Len(b)))
    ELSE IF Len(b) >= 4
        THEN XXHTail(U64Add(U64Mul(RotL(U64Xor(h, U64Mul(Widen(SubSeq(b, 1, 4)),
                                                     Prime1)),
                                        23), Prime2), Prime3),
                     SubSeq(b, 5, Len(b)))
    ELSE XXHTail(U64Mul(RotL(U64Xor(h, U64Mul(Widen(<<b[1]>>), Prime5)),
                             11), Prime1),
                 Tail(b))

\* The final mix of XXH64.
XXHAvalanche(h) ==
    LET a == U64Mul(U64Xor(h, ShiftR(h, 33)), Prime2)
        c == U64Mul(U64Xor(a, ShiftR(a, 29)), Prime3)
    IN  U64Xor(c, ShiftR(c, 32))

\* The accumulators of the stripes merged into one word.
XXHMerge(v) ==
    IF Len(v) # 4 THEN Zeros(8)
    ELSE LET h == U64Add(U64Add(RotL(v[1], 1), RotL(v[2], 7)),
                         U64Add(RotL(v[3], 12), RotL(v[4], 18)))
         IN  XXHMergeRound(XXHMergeRound(XXHMergeRound(
                 XXHMergeRound(h, v[1]), v[2]), v[3]), v[4])

\* XXH64 of b with seed 0, as uint64.
XXH64(b) ==
    LET whole == Len(b) - (Len(b) % 32)
        h0 == IF Len(b) < 32 THEN Prime5
              ELSE XXHMerge(XXHStripes(<<U64Add(Prime1, Prime2), Prime2,
                                         Zeros(8),
                                         U64Add(U64Xor(Prime1, Repeat(255, 8)),
                                                PutLE(1, 8))>>, b))
    IN  XXHAvalanche(XXHTail(U64Add(h0, PutLE(Len(b), 8)),
                             SubSeq(b, whole + 1, Len(b))))

\* The content checksum that ends a zstd frame: the low 32 bits of XXH64 of
\* the decoded content, little-endian.
ZstdChecksum(v) == SubSeq(XXH64(v), 1, 4)

\* zenc.EncodeAll(v, nil) of the encoder BuildWithOptions makes (fastest
\* level, checksum on), for a value of fewer than ten bytes, which the
\* encoder stores without looking for matches.  Empty input gives no bytes
\* at all.  Otherwise one frame: the magic, the Frame_Header_Descriptor 4
\* (checksum; not single segment, which the encoder keeps for inputs above
\* 1 KiB, and no content size, which it leaves out below 256 bytes), the
\* window descriptor 0 (1 KiB), one raw last block (3-byte header
\* size<<3 | last, then the bytes), the checksum.
ZstdEncode(v) ==
    IF Len(v) = 0 THEN <<>>
    ELSE ZstdMagic \o <<4, 0>> \o PutLE(Len(v) * 8 + 1, 3)
         \o v \o ZstdChecksum(v)

\* The largest block a zstd frame may hold: 128 KiB.
MaxBlockSize == 131072

\* The smallest window of a frame: 1 KiB.
MinWindowSize == 1024

\* The largest window the decoder of zstd.NewReader(nil) takes: 2^29, as
\* uint64.
MaxWindowSize == <<0, 0, 0, 32, 0, 0, 0, 0>>

\* The largest output the same decoder makes: 64 GiB, as uint64.
MaxDecodedSize == <<0, 0, 0, 0, 16, 0, 0, 0>>

\* The Frame_Content_Size of a frame that gives none: 2^64 - 1.
fcsUnknown == Repeat(255, 8)

\* A step of the decoder is [ok, out, pos, last, nil]: whether it succeeded,
\* the content it produced, the offset of src it reached, whether it was
\* the last step, and whether DecodeAll returns a nil slice for it.  This is
\* a step that failed after producing out: DecodeAll returns the content
\* decoded so far together with the error.
ZstdFail(out) ==
    [ok |-> FALSE, out |-> out, pos |-> 0, last |-> TRUE, nil |-> FALSE]

\* The compressed block src[lo:hi] when it needs no entropy decoder: raw or
\* run-length literals (Literals_Section_Header of one, two or three bytes)
\* of at most a window and a block, followed by a sequence count of zero
\* (the byte 0, or 128 and 0) and nothing more.  Huffman-coded literals and
\* sequences are not modelled (no file of the model holds them) and come
\* out as a failure.
ZstdLiterals(src, lo, hi, last, window) ==
    IF hi - lo < 2 THEN ZstdFail(<<>>)
    ELSE LET b0 == src[lo + 1]
             litType == b0 % 4
             sizeFormat == (b0 \div 4) % 4
             hdr == IF sizeFormat = 1 THEN 2 ELSE IF sizeFormat = 3 THEN 3 ELSE 1
             regen == IF hdr = 1 THEN b0 \div 8
                      ELSE IF hdr = 2 THEN (b0 \div 16) + 16 * src[lo + 2]
                      ELSE (b0 \div 16) + 16 * src[lo + 2] + 4096 * src[lo + 3]
             from == lo + hdr
             used == IF litType = 0 THEN regen ELSE 1
         IN  IF litType >= 2 \/ hi - lo < hdr
                    \/ regen > window \/ regen > MaxBlockSize
                    \/ hi - from < used
                    \/ Slice(src, from + used, hi) \notin {<<0>>, <<128, 0>>}
                 THEN ZstdFail(<<>>)
             ELSE [ok |-> TRUE,
                   out |-> IF litType = 0 THEN Slice(src, from, from + regen)
                           ELSE Repeat(src[from + 1], regen),
                   pos |-> hi, last |-> last, nil |-> FALSE]

\* The block at offset pos of src.  A block header is three bytes,
\* little-endian: bit 0 last, bits 1-2 the type (0 raw, 1 run-length, 2
\* compressed, 3 reserved), the rest the size, which may exceed neither a
\* block nor the window of the frame.
ZstdBlock(src, pos, window) ==
    IF Len(src) < pos + 3 THEN ZstdFail(<<>>)
    ELSE LET bh == SmallVal(Slice(src, pos, pos + 3))
             last == bh % 2 = 1
             type == (bh \div 2) % 4
             size == bh \div 8
             data == pos + 3
         IN  IF type = 3 \/ size > MaxBlockSize \/ size > window
                 THEN ZstdFail(<<>>)
             ELSE IF type = 1
                 THEN IF Len(src) < data + 1 THEN ZstdFail(<<>>)
                      ELSE [ok |-> TRUE, out |-> Repeat(src[data + 1], size),
                            pos |-> data + 1, last |-> last, nil |-> FALSE]
             ELSE IF Len(src) < data + size THEN ZstdFail(<<>>)
             ELSE IF type = 0
                 THEN [ok |-> TRUE, out |-> Slice(src, data, data + size),
                       pos |-> data + size, last |-> last, nil |-> FALSE]
             ELSE ZstdLiterals(src, data, data + size, last, window)

\* The blocks of a frame from the block blk on, up to the one marked last,
\* done being the content of the blocks before blk.  A block that fails ends
\* the frame with the content before it; a block that takes the content
\* past the Frame_Content_Size fcs ends it with that content.
RECURSIVE ZstdBlocks(_, _, _, _, _)
ZstdBlocks(src, window, fcs, done, blk) ==
    IF ~blk.ok THEN ZstdFail(done)
    ELSE IF ~LeqLE(PutLE(Len(done) + Len(blk.out), 8), fcs)
        THEN ZstdFail(done \o blk.out)
    ELSE IF blk.last THEN [blk EXCEPT !.out = done \o blk.out]
    ELSE ZstdBlocks(src, window, fcs, done \o blk.out,
                    ZstdBlock(src, blk.pos, window))

\* The end of a frame whose blocks are r: the content must have the size
\* the header gave, if it gave one, and the checksum, if any, must be that
\* of the content.  The content is returned in either case.
ZstdFrameEnd(src, fcs, hasSum, r) ==
    IF ~r.ok THEN r
    ELSE IF fcs # fcsUnknown /\ PutLE(Len(r.out), 8) # fcs
        THEN ZstdFail(r.out)
    ELSE IF ~hasSum THEN [r EXCEPT !.last = FALSE]
    ELSE IF Len(src) < r.pos + 4
            \/ Slice(src, r.pos, r.pos + 4) # ZstdChecksum(r.out)
        THEN ZstdFail(r.out)
    ELSE [r EXCEPT !.pos = r.pos + 4, !.last = FALSE]

\* The blocks and the end of the frame whose header ends at offset body.
ZstdFrameBody(src, body, window, fcs, hasSum) ==
    ZstdFrameEnd(src, fcs, hasSum,
                 ZstdBlocks(src, window, fcs, <<>>,
                            ZstdBlock(src, body, window)))

\* The Frame_Content_Size field b of zero, one, two, four or eight bytes as
\* uint64; the two-byte form counts from 256.
FrameContentSize(b) ==
    IF Len(b) = 0 THEN fcsUnknown
    ELSE IF Len(b) = 2 THEN U64Add(Widen(b), PutLE(256, 8))
    ELSE Widen(b)

\* One zstd frame at offset pos of src (after its four magic bytes): the
\* Frame_Header_Descriptor (bits 7-6 the size of the content size field,
\* bit 5 single segment, bit 3 reserved, bit 2 checksum, bits 1-0 the size
\* of the dictionary id), the window descriptor unless single segment, the
\* dictionary id, the content size, the blocks, the checksum.  The window
\* of a single segment frame is its content size, 1 KiB at least.  The
\* decoder has no dictionary: for a dictionary id other than 0 DecodeAll
\* returns nil and the error.  n is the number of bytes the frames before
\* this one decoded: a frame whose content size would take the output of
\* the call past MaxDecodedSize is refused before its first block.
ZstdFrame(src, pos, n) ==
    IF Len(src) < pos + 1 THEN ZstdFail(<<>>)
    ELSE LET fhd == src[pos + 1]
             single == (fhd \div 32) % 2 = 1
             hasSum == (fhd \div 4) % 2 = 1
             didSize == IF fhd % 4 = 3 THEN 4 ELSE fhd % 4
             fcsSize == IF fhd \div 64 = 0 THEN (IF single THEN 1 ELSE 0)
                        ELSE 2 ^ (fhd \div 64)
             didAt == pos + (IF single THEN 1 ELSE 2)
             body == didAt + didSize + fcsSize
             fcs == FrameContentSize(Slice(src, body - fcsSize, body))
             unknownDict == Slice(src, didAt, didAt + didSize) # Zeros(didSize)
             windowLog == 10 + (src[pos + 2] \div 8)
             windowFrac == src[pos + 2] % 8
             nil == [ok |-> FALSE, out |-> <<>>, pos |-> 0, last |-> TRUE,
                     nil |-> TRUE]
             tooBig == /\ fcs # fcsUnknown
                       /\ \/ ~LeqLE(fcs, MaxDecodedSize)
                          \/ ~LeqLE(U64Add(fcs, PutLE(n, 8)), MaxDecodedSize)
         IN  IF (fhd \div 8) % 2 = 1 \/ Len(src) < body THEN ZstdFail(<<>>)
             ELSE IF single
                 THEN IF ~LeqLE(fcs, MaxDecodedSize) THEN ZstdFail(<<>>)
                      ELSE IF unknownDict THEN nil
                      ELSE IF ~LeqLE(fcs, MaxWindowSize) \/ tooBig
                          THEN ZstdFail(<<>>)
                      ELSE ZstdFrameBody(src, body,
                               IF LeqLE(fcs, PutLE(MinWindowSize, 8))
                               THEN MinWindowSize
                               ELSE SmallVal(fcs) + 16777216 * fcs[4],
                               fcs, hasSum)
             ELSE IF windowLog > 29 \/ (windowLog = 29 /\ windowFrac > 0)
                 THEN ZstdFail(<<>>)
             ELSE IF unknownDict THEN nil
             ELSE IF tooBig THEN ZstdFail(<<>>)
             ELSE ZstdFrameBody(src, body,
                                2 ^ windowLog
                                    + (2 ^ windowLog \div 8) * windowFrac,
                                fcs, hasSum)

\* What starts at offset pos of src: the end of the input (the last step),
\* a skippable frame (magic 0x184D2A50 to 0x184D2A5F, then a four-byte size
\* and that many bytes to pass over), or a frame after the magic.  The
\* input may end before a frame, not inside one.  A skippable frame of 2^24
\* bytes or more ends past every input of the model.  n is the number of
\* bytes decoded before pos.
ZstdFrameAt(src, pos, n) ==
    IF pos = Len(src)
        THEN [ok |-> TRUE, out |-> <<>>, pos |-> pos, last |-> TRUE,
              nil |-> FALSE]
    ELSE IF Len(src) < pos + 4 THEN ZstdFail(<<>>)
    ELSE IF Slice(src, pos + 1, pos + 4) = <<42, 77, 24>>
            /\ src[pos + 1] \div 16 = 5
        THEN IF Len(src) < pos + 8
                    \/ ~IsSmall(Slice(src, pos + 4, pos + 8))
                    \/ Len(src) < pos + 8 + SmallVal(Slice(src, pos + 4, pos + 8))
                 THEN ZstdFail(<<>>)
             ELSE [ok |-> TRUE, out |-> <<>>,
                   pos |-> pos + 8 + SmallVal(Slice(src, pos + 4, pos + 8)),
                   last |-> FALSE, nil |-> FALSE]
    ELSE IF Slice(src, pos, pos + 4) # ZstdMagic THEN ZstdFail(<<>>)
    ELSE ZstdFrame(src, pos + 4, n)

\* The frames of src from the frame r on, up to the end of the input, done
\* being the content of the frames before r: a frame that fails ends the
\* call with the content decoded so far.
RECURSIVE ZstdFrames(_, _, _)
ZstdFrames(src, done, r) ==
    IF r.nil THEN r
    ELSE IF ~r.ok \/ r.last THEN [r EXCEPT !.out = done \o r.out]
    ELSE ZstdFrames(src, done \o r.out,
                    ZstdFrameAt(src, r.pos, Len(done) + Len(r.out)))

\* zstdDec.DecodeAll(src, dst[:0]): [ok, out]; ok = FALSE is a non-nil
\* error, and out is then what was decoded before it.  Empty input decodes
\* to nothing without error; anything else must be a sequence of frames.
ZstdDecode(src) ==
    LET r == ZstdFrames(src, <<>>, ZstdFrameAt(src, 0, 0))
    IN  [ok |-> r.ok, out |-> r.out]

-----------------------------------------------------------------------------
(* BuildWithOptions, src/qwick.go:212-346.                                 *)
(*                                                                         *)
(* The state of the open temporary file is st = [f, pos, idx]: its bytes,  *)
(* the file position, and the idx records collected so far.  Every I/O     *)
(* call takes a flag saying whether it fails.  A failed Write has taken    *)
(* some of its bytes, fewer than all, before the error: they are in the    *)
(* file and the position has moved past them.  A failed Seek leaves the    *)
(* position where it was and returns 0.                                    *)

\* The codec chosen by the cutover whatever opts.Compression is.
compToUseAnyMode(o, vb) ==
    IF o.SizeCutover > 0
    THEN (IF Len(vb) > o.SizeCutover THEN compZstd ELSE compS2)
    ELSE o.Compression

\* The codec applied to one value, lines 293-300.
compToUse(o, vb) ==
    IF o.Compression = 0 /\ o.SizeCutover > 0
    THEN (IF Len(vb) > o.SizeCutover THEN compZstd ELSE compS2)
    ELSE o.Compression

\* The stored bytes cv of one value, lines 302-314.
EncodeValue(o, vb) ==
    LET c == compToUse(o, vb)
    IN  IF c = compZstd THEN ZstdEncode(vb)
        ELSE IF c = compS2 THEN S2Encode(vb)
        ELSE vb

\* offBlobs, lines 224-226.
offBlobs(num) == headerSize + num * indexEntrySize

\* f.Seek(0, io.SeekCurrent): the offset it returns.
SeekCurrent(st, fails) == IF fails THEN 0 ELSE st.pos

\* f.Seek(off, io.SeekStart).
SeekStart(st, off, fails) == IF fails THEN st ELSE [st EXCEPT !.pos = off]

\* The numbers of bytes f.Write(data) may have taken when it returns: all
\* of them when it succeeds, any smaller number when it fails.
Taken(data, fails) ==
    IF ~fails THEN {Len(data)}
    ELSE IF Len(data) = 0 THEN {0}
    ELSE 0..(Len(data) - 1)

\* f.Write(data) that takes the first n bytes of data.
Write(st, data, n) ==
    [st EXCEPT !.f = WriteAt(st.f, st.pos, SubSeq(data, 1, n)),
               !.pos = st.pos + n]

\* The callback of the second tree.ForEach for one leaf, lines 271-320;
\* nk and nv are the numbers of bytes the writes of the key and of the
\* value take, fault names the seek that fails, if any.
WriteEntry(st, node, o, fault, nk, nv) ==
    LET koff == SeekCurrent(st, fault = "seekKey")
        st1 == Write(st, node.k, nk)
        voff == SeekCurrent(st1, fault = "seekVal")
        cv == EncodeValue(o, node.v)
        st2 == Write(st1, cv, nv)
    IN  [st2 EXCEPT !.idx = Append(st.idx,
            [koff |-> koff, klen |-> Len(node.k),
             voff |-> voff, vlen |-> Len(cv)])]

\* One 24-byte index record, lines 325-328.
IndexRecord(it) ==
    PutLE(it.koff, 8) \o PutLE(it.klen, 4) \o PutLE(it.voff, 8)
    \o PutLE(it.vlen, 4)

\* The 64-byte header, lines 333-340.
HeaderBytes(num, o) ==
    Copy(Zeros(8), FileMagic) \o PutLE(FileVersion, 4) \o Zeros(4)
    \o PutLE(num, 8) \o PutLE(headerSize, 8) \o PutLE(offBlobs(num), 8)
    \o PutLE(ValueFmtGeneric, 4) \o PutLE(o.Compression, 4) \o Zeros(16)

\* The blob area after all leaves of t from the i-th on were written.
RECURSIVE WriteEntries(_, _, _, _)
WriteEntries(st, t, o, i) ==
    IF i > Len(t) THEN st
    ELSE WriteEntries(WriteEntry(st, t[i], o, "none", Len(t[i].k),
                                 Len(EncodeValue(o, t[i].v))),
                      t, o, i + 1)

\* The index table written from record i on, lines 324-330.
RECURSIVE WriteIndex(_, _)
WriteIndex(st, i) ==
    IF i > Len(st.idx) THEN st
    ELSE WriteIndex(Write(st, IndexRecord(st.idx[i]), indexEntrySize), i + 1)

\* The file a build of t under o leaves at the target when no I/O call
\* fails: the steps of lines 229-345 in order.
BuildImage(t, o) ==
    LET s0 == [f |-> <<>>, pos |-> 0, idx |-> <<>>]
        s1 == Write(s0, Zeros(headerSize), headerSize)
        s2 == SeekStart(s1, offBlobs(Len(t)), FALSE)
        s3 == WriteEntries(s2, t, o, 1)
        s4 == WriteIndex(SeekStart(s3, headerSize, FALSE), 1)
        s5 == Write(SeekStart(s4, 0, FALSE), HeaderBytes(Len(t), o), headerSize)
    IN  s5.f

-----------------------------------------------------------------------------
(* Open and the reader, src/qwick.go:66-202.                               *)

\* The MMAPDB that lines 83-104 of Open fill in from the mapping m.  Every
\* header field of the files enumerated below is less than 2^24.
OpenFields(m) ==
    LET hdr == [Magic |-> Slice(m, 0, 8),
                Version |-> SmallVal(Slice(m, 8, 12)),
                NumEntries |-> SmallVal(Slice(m, 16, 24)),
                OffIndex |-> SmallVal(Slice(m, 24, 32)),
                OffBlobs |-> SmallVal(Slice(m, 32, 40)),
                ValueFmt |-> SmallVal(Slice(m, 40, 44)),
                Compression |-> SmallVal(Slice(m, 44, 48))]
    IN  [mdata |-> m, hdr |-> hdr, indexBase |-> hdr.OffIndex,
         indexSize |-> indexEntrySize, num |-> hdr.NumEntries,
         compression |-> hdr.Compression]

\* The comparison made with the eight bytes of FileMagic that fit the header
\* field, so that the files the builder writes pass it.
MagicMismatchFirst8(m) == Slice(m, 0, 8) # SubSeq(FileMagic, 1, 8)

\* The comparison of line 85: string(hdr.Magic[:]) != FileMagic, on the
\* eight bytes copied from the mapping.
MagicMismatch(m) == Slice(m, 0, 8) # FileMagic

\* Open(path) on what path holds: [err, db, m].  err is "" on success; m is
\* the file the call mapped (NoFile if it mapped nothing).  os.Open fails on
\* a missing file, mmap.Map on an empty one.
Open(file) ==
    IF ~file.exists
        THEN [err |-> "open", db |-> NoReader, m |-> NoFile]
    ELSE IF Len(file.bytes) = 0
        THEN [err |-> "mmap", db |-> NoReader, m |-> NoFile]
    ELSE IF Len(file.bytes) < headerSize
        THEN [err |-> "short file", db |-> NoReader, m |-> file]
    ELSE IF MagicMismatch(file.bytes)
        THEN [err |-> "bad magic", db |-> NoReader, m |-> file]
    ELSE [err |-> "", db |-> OpenFields(file.bytes), m |-> file]

\* A panic of the Go runtime (slice bounds out of range).
Panic == [panic |-> TRUE]

\* m[off : off+uint64(n)] for a uint64 off and a uint32 n, both given as
\* little-endian bytes: the sum wraps at 2^64, and the slice expression
\* panics unless off <= off+n <= len(m).
SliceU64(m, off, n) ==
    LET hi == U64Add(off, Widen(n))
    IN  IF LeqLE(off, hi) /\ LeqLE(hi, PutLE(Len(m), 8))
        THEN [panic |-> FALSE,
              bytes |-> Slice(m, SmallVal(off), SmallVal(hi))]
        ELSE Panic

\* readIndex, lines 185-192: the four fields of index entry i as the bytes
\* read, or the panic of the first slice that leaves the mapping.
readIndex(d, i) ==
    LET off == d.indexBase + i * indexEntrySize
    IN  IF off + 24 > Len(d.mdata) THEN Panic
        ELSE [panic |-> FALSE,
              koff |-> Slice(d.mdata, off, off + 8),
              klen |-> Slice(d.mdata, off + 8, off + 12),
              voff |-> Slice(d.mdata, off + 12, off + 20),
              vlen |-> Slice(d.mdata, off + 20, off + 24)]

\* getKeySlice, lines 194-197.
getKeySlice(d, i) ==
    LET e == readIndex(d, i)
    IN  IF e.panic THEN Panic ELSE SliceU64(d.mdata, e.koff, e.klen)

\* getValSlice, lines 199-202.
getValSlice(d, i) ==
    LET e == readIndex(d, i)
    IN  IF e.panic THEN Panic ELSE SliceU64(d.mdata, e.voff, e.vlen)

\* The loop of findIndex, lines 170-182, from the interval [lo, hi).
RECURSIVE findLoop(_, _, _, _)
findLoop(d, key, lo, hi) ==
    IF lo >= hi THEN [panic |-> FALSE, idx |-> lo, ok |-> FALSE]
    ELSE LET mid == (lo + hi) \div 2
             k == getKeySlice(d, mid)
         IN  IF k.panic THEN Panic
             ELSE LET cmp == Compare(k.bytes, key)
                  IN  IF cmp = 0
                          THEN [panic |-> FALSE, idx |-> mid, ok |-> TRUE]
                      ELSE IF cmp < 0 THEN findLoop(d, key, mid + 1, hi)
                      ELSE findLoop(d, key, lo, mid)

\* findIndex returning the position after an exact match instead of the
\* match itself (an upper bound where the lower bound is wanted).
findIndexPastMatch(d, key) ==
    LET f == findLoop(d, key, 0, d.num)
    IN  IF ~f.panic /\ f.ok THEN [f EXCEPT !.idx = f.idx + 1] ELSE f

\* findIndex, lines 168-183.
findIndex(d, key) == findLoop(d, key, 0, d.num)

\* GetRaw, lines 115-122: [panic, ok, val].
GetRaw(d, key) ==
    LET f == findIndex(d, key)
    IN  IF f.panic THEN Panic
        ELSE IF ~f.ok THEN [panic |-> FALSE, ok |-> FALSE, val |-> <<>>]
        ELSE LET v == getValSlice(d, f.idx)
             IN  IF v.panic THEN Panic
                 ELSE [panic |-> FALSE, ok |-> TRUE, val |-> v.bytes]

\* The switch of Find with an auto branch that hands on the error of the
\* last codec tried instead of falling back to the stored bytes.
DecodeAutoError(compression, val, s, z) ==
    IF compression = compZstd THEN [val |-> z.out, err |-> ~z.ok]
    ELSE IF compression = compS2 THEN [val |-> s.out, err |-> ~s.ok]
    ELSE IF compression = 0
        THEN IF s.ok THEN [val |-> s.out, err |-> FALSE]
             ELSE [val |-> z.out, err |-> ~z.ok]
    ELSE [val |-> val, err |-> FALSE]

\* The switch of Find on db.compression, lines 130-150, for the stored bytes
\* val, s being what s2.Decode makes of them and z what zstdDec.DecodeAll
\* does: [val, err], err = TRUE standing for a non-nil error.
DecodeWith(compression, val, s, z) ==
    IF compression = compZstd THEN [val |-> z.out, err |-> ~z.ok]
    ELSE IF compression = compS2 THEN [val |-> s.out, err |-> ~s.ok]
    ELSE IF compression = 0
        THEN IF s.ok THEN [val |-> s.out, err |-> FALSE]
             ELSE IF z.ok THEN [val |-> z.out, err |-> FALSE]
             ELSE [val |-> val, err |-> FALSE]
    ELSE [val |-> val, err |-> FALSE]

Decode(compression, val) ==
    DecodeWith(compression, val, S2Decode(val), ZstdDecode(val))

\* Find, lines 125-151: [panic, ok, val, err].
Find(d, key) ==
    LET g == GetRaw(d, key)
    IN  IF g.panic THEN Panic
        ELSE IF ~g.ok
            THEN [panic |-> FALSE, ok |-> FALSE, val |-> <<>>, err |-> FALSE]
        ELSE LET r == Decode(d.compression, g.val)
             IN  [panic |-> FALSE, ok |-> TRUE, val |-> r.val, err |-> r.err]

\* db.mdata.Unmap() in Close, lines 110-112: the mapping is released and
\* mmap.Unmap sets the slice it is called on to nil; no other field changes.
CloseFields(d) == [d EXCEPT !.mdata = <<>>]

-----------------------------------------------------------------------------
(* The inputs.                                                             *)

\* Most leaves a source holds: in the files the readers are given, and in
\* the builds that run step by step.
MaxEntries == 3

MaxBuildEntries == 2

\* Most I/O calls that fail during one build.
MaxFaults == 1

\* The keys a source draws from, in ascending byte order: "", "a", "ab", "b".
KeyUniverse == << <<>>, <<97>>, <<97, 98>>, <<98>> >>

\* The values the sources hold: empty, the single byte 0, and "xy".
Vals == { <<>>, <<0>>, <<120, 121>> }

\* The build options: every compression code with the cutover off and on.
Options == [Compression : {0, 1, 2}, SizeCutover : {0, 1}]

\* The members of a set of positions of KeyUniverse, ascending.
RECURSIVE Ascending(_)
Ascending(S) ==
    IF S = {} THEN <<>>
    ELSE LET m == CHOOSE x \in S : \A y \in S : x <= y
         IN  <<m>> \o Ascending(S \ {m})

\* What tree.ForEach visits: every sequence of at most n leaves with unique
\* keys in ascending order, each with a value of Vals.
TreesUpTo(n) ==
    UNION { { [i \in 1..Len(ks) |-> [k |-> KeyUniverse[ks[i]], v |-> f[i]]] :
                f \in [1..Len(ks) -> Vals] } :
            ks \in { Ascending(S) : S \in { T \in SUBSET (1..Len(KeyUniverse)) :
                                              Cardinality(T) <= n } } }

Trees == TreesUpTo(MaxEntries)

BuildTrees == TreesUpTo(MaxBuildEntries)

\* The file an earlier build left at the target path.
OldImage ==
    File(BuildImage(<< [k |-> <<97>>, v |-> <<120, 121>>] >>,
                    [Compression |-> 2, SizeCutover |-> 0]))

NoResult == [err |-> "none", db |-> NoReader, m |-> NoFile]

NoCall == [op |-> "none", key |-> <<>>, r |-> [panic |-> FALSE]]

\* The build of Spec is not part of SpecOpen and SpecReader.
BuildIdle ==
    /\ bpc = "idle"
    /\ fpos = 0
    /\ indices = <<>>
    /\ bi = 0
    /\ ent = [koff |-> 0, voff |-> 0]
    /\ bres = "none"
    /\ faults = <<>>

PrefixIdle ==
    /\ ppc = "idle"
    /\ pprefix = <<>>
    /\ pi = 0
    /\ visited = <<>>
    /\ reads = <<>>
    /\ stopped = FALSE

ReaderIdle ==
    /\ db = NoReader
    /\ res = NoCall
    /\ PrefixIdle

\* No goroutine of SpecParallel runs, and zstdDec has no block decoders.
ThreadsIdle == th = <<>> /\ zdec = [free |-> <<>>, frames |-> <<>>]

\* The archive codec is not part of Spec, SpecOpen and SpecReader.
ArchiveIdle ==
    /\ asrc = <<>>
    /\ ekey = <<>>
    /\ arch = <<>>
    /\ epos = 0
    /\ tamper = "none"
    /\ dkey = <<>>
    /\ dpos = 0
    /\ adst = <<>>
    /\ apc = "idle"
    /\ aerr = ""

-----------------------------------------------------------------------------
(* Spec: one run of BuildWithOptions(tree, path, opts), with Open(path)    *)
(* called by other processes at any moment.                                *)

Init ==
    /\ tree \in BuildTrees
    /\ opts \in Options
    /\ disk \in [target : {NoFile, OldImage}, tmp : {NoFile}]
    /\ bpc = "create"
    /\ fpos = 0
    /\ indices = <<>>
    /\ bi = 0
    /\ ent = [koff |-> 0, voff |-> 0]
    /\ bres = "running"
    /\ faults = <<>>
    /\ openRes = NoResult
    /\ ReaderIdle
    /\ ArchiveIdle
    /\ ThreadsIdle

\* The open temporary file as the builder sees it.
TmpState == [f |-> disk.tmp.bytes, pos |-> fpos, idx |-> indices]

\* The outcomes of an I/O call: it succeeds, or, while fewer than MaxFaults
\* calls have failed, it fails.
Outcomes(names) == {"none"} \cup (IF Len(faults) < MaxFaults THEN names ELSE {})

\* What a step records of its outcome.
Record(fault) == IF fault = "none" THEN faults ELSE Append(faults, fault)

\* return fmt.Errorf(...): the build ends with an error.
Abort(fault) ==
    /\ bpc' = "done"
    /\ bres' = "error"
    /\ faults' = Record(fault)

\* Lines 213-233: MkdirAll and os.Create(tmp); an error is returned.
BuildCreate ==
    /\ bpc = "create"
    /\ \E fault \in Outcomes({"create"}) :
        IF fault # "none"
        THEN Abort(fault) /\ UNCHANGED <<disk, fpos>>
        ELSE /\ disk' = [disk EXCEPT !.tmp = File(<<>>)]
             /\ fpos' = 0
             /\ bpc' = "stub"
             /\ UNCHANGED <<bres, faults>>
    /\ UNCHANGED <<threadVars, archiveVars, inputVars, indices, bi, ent, openRes, readerVars>>

\* Lines 235-237: the 64 zero bytes; an error is returned.
BuildStub ==
    /\ bpc = "stub"
    /\ \E fault \in Outcomes({"writeStub"}) :
        \E n \in Taken(Zeros(headerSize), fault # "none") :
            LET st == Write(TmpState, Zeros(headerSize), n)
            IN  /\ disk' = [disk EXCEPT !.tmp = File(st.f)]
                /\ fpos' = st.pos
                /\ IF fault # "none" THEN Abort(fault)
                   ELSE bpc' = "seekBlobs" /\ UNCHANGED <<bres, faults>>
    /\ UNCHANGED <<threadVars, archiveVars, inputVars, indices, bi, ent, openRes, readerVars>>

\* Lines 239-241: seek to offBlobs; an error is returned.
BuildSeekBlobs ==
    /\ bpc = "seekBlobs"
    /\ \E fault \in Outcomes({"seekBlobs"}) :
        IF fault # "none"
        THEN Abort(fault) /\ UNCHANGED fpos
        ELSE /\ fpos' = SeekStart(TmpState, offBlobs(Len(tree)), FALSE).pos
             /\ bpc' = IF Len(tree) = 0 THEN "seekIndex" ELSE "seekKey"
             /\ UNCHANGED <<bres, faults>>
    /\ UNCHANGED <<threadVars, archiveVars, inputVars, disk, indices, bi, ent, openRes, readerVars>>

\* Lines 284-285: koff is the file position; the error is dropped.
BuildSeekKey ==
    /\ bpc = "seekKey"
    /\ \E fault \in Outcomes({"seekKey"}) :
        /\ ent' = [ent EXCEPT !.koff = SeekCurrent(TmpState, fault # "none")]
        /\ faults' = Record(fault)
    /\ bpc' = "writeKey"
    /\ UNCHANGED <<threadVars, archiveVars, inputVars, disk, fpos, indices, bi, bres,
                   openRes, readerVars>>

\* Lines 286-287: the key; the error is dropped.
BuildWriteKey ==
    /\ bpc = "writeKey"
    /\ \E fault \in Outcomes({"writeKey"}) :
        \E n \in Taken(tree[Len(indices) + 1].k, fault # "none") :
            LET st == Write(TmpState, tree[Len(indices) + 1].k, n)
            IN  /\ disk' = [disk EXCEPT !.tmp = File(st.f)]
                /\ fpos' = st.pos
                /\ faults' = Record(fault)
    /\ bpc' = "seekVal"
    /\ UNCHANGED <<threadVars, archiveVars, inputVars, indices, bi, ent, bres, openRes,
                   readerVars>>

\* Lines 289-290: voff is the file position; the error is dropped.
BuildSeekVal ==
    /\ bpc = "seekVal"
    /\ \E fault \in Outcomes({"seekVal"}) :
        /\ ent' = [ent EXCEPT !.voff = SeekCurrent(TmpState, fault # "none")]
        /\ faults' = Record(fault)
    /\ bpc' = "writeVal"
    /\ UNCHANGED <<threadVars, archiveVars, inputVars, disk, fpos, indices, bi, bres,
                   openRes, readerVars>>

\* Lines 292-319: the value is encoded and written, the error is dropped,
\* and the idx record of the leaf is appended.
BuildWriteVal ==
    /\ bpc = "writeVal"
    /\ \E cv \in {EncodeValue(opts, tree[Len(indices) + 1].v)} :
        \E fault \in Outcomes({"writeVal"}) :
            \E n \in Taken(cv, fault # "none") :
                LET st == Write(TmpState, cv, n)
                IN  /\ disk' = [disk EXCEPT !.tmp = File(st.f)]
                    /\ fpos' = st.pos
                    /\ indices' = Append(indices,
                            [koff |-> ent.koff,
                             klen |-> Len(tree[Len(indices) + 1].k),
                             voff |-> ent.voff, vlen |-> Len(cv)])
                    /\ bpc' = IF Len(indices) + 1 = Len(tree) THEN "seekIndex"
                              ELSE "seekKey"
                    /\ faults' = Record(fault)
    /\ ent' = [koff |-> 0, voff |-> 0]
    /\ UNCHANGED <<threadVars, archiveVars, inputVars, bi, bres, openRes, readerVars>>

\* Line 322: seek to offIndex; the error is dropped.
BuildSeekIndex ==
    /\ bpc = "seekIndex"
    /\ \E fault \in Outcomes({"seekIndex"}) :
        /\ fpos' = SeekStart(TmpState, headerSize, fault # "none").pos
        /\ faults' = Record(fault)
    /\ bpc' = IF Len(indices) = 0 THEN "seekHdr" ELSE "index"
    /\ UNCHANGED <<threadVars, archiveVars, inputVars, disk, indices, bi, ent, bres, openRes, readerVars>>

\* Lines 324-330: the next index record; the error is dropped.
BuildIndexRec ==
    /\ bpc = "index"
    /\ \E fault \in Outcomes({"writeIndex"}) :
        \E n \in Taken(IndexRecord(indices[bi + 1]), fault # "none") :
            LET st == Write(TmpState, IndexRecord(indices[bi + 1]), n)
            IN  /\ disk' = [disk EXCEPT !.tmp = File(st.f)]
                /\ fpos' = st.pos
                /\ faults' = Record(fault)
    /\ bi' = bi + 1
    /\ bpc' = IF bi + 1 = Len(indices) THEN "seekHdr" ELSE "index"
    /\ UNCHANGED <<threadVars, archiveVars, inputVars, indices, ent, bres, openRes,
                   readerVars>>

\* Line 332: seek to 0; the error is dropped.
BuildSeekHdr ==
    /\ bpc = "seekHdr"
    /\ \E fault \in Outcomes({"seekHdr"}) :
        /\ fpos' = SeekStart(TmpState, 0, fault # "none").pos
        /\ faults' = Record(fault)
    /\ bpc' = "header"
    /\ UNCHANGED <<threadVars, archiveVars, inputVars, disk, indices, bi, ent, bres, openRes, readerVars>>

\* Lines 333-341: the header; the error is dropped.
BuildHeader ==
    /\ bpc = "header"
    /\ \E fault \in Outcomes({"writeHdr"}) :
        \E n \in Taken(HeaderBytes(Len(tree), opts), fault # "none") :
            LET st == Write(TmpState, HeaderBytes(Len(tree), opts), n)
            IN  /\ disk' = [disk EXCEPT !.tmp = File(st.f)]
                /\ fpos' = st.pos
                /\ faults' = Record(fault)
    /\ bpc' = "sync"
    /\ UNCHANGED <<threadVars, archiveVars, inputVars, indices, bi, ent, bres, openRes, readerVars>>

\* Lines 343-344: f.Sync() and f.Close(); the errors are dropped.
BuildSync ==
    /\ bpc = "sync"
    /\ \E fault \in Outcomes({"sync", "close"}) : faults' = Record(fault)
    /\ bpc' = "rename"
    /\ UNCHANGED <<threadVars, archiveVars, inputVars, disk, fpos, indices, bi, ent, bres, openRes,
                   readerVars>>

\* Line 345: return os.Rename(tmp, path).
BuildRename ==
    /\ bpc = "rename"
    /\ \E fault \in Outcomes({"rename"}) :
        IF fault # "none"
        THEN Abort(fault) /\ UNCHANGED disk
        ELSE /\ disk' = [target |-> disk.tmp, tmp |-> NoFile]
             /\ bpc' = "done"
             /\ bres' = "ok"
             /\ UNCHANGED faults
    /\ UNCHANGED <<threadVars, archiveVars, inputVars, fpos, indices, bi, ent, openRes, readerVars>>

\* Open(path) by a reader process, at any moment of the build.
OpenTarget ==
    /\ openRes' = Open(disk.target)
    /\ UNCHANGED <<threadVars, archiveVars, inputVars, buildVars, readerVars>>

Next ==
    \/ BuildCreate
    \/ BuildStub
    \/ BuildSeekBlobs
    \/ BuildSeekKey
    \/ BuildWriteKey
    \/ BuildSeekVal
    \/ BuildWriteVal
    \/ BuildSeekIndex
    \/ BuildIndexRec
    \/ BuildSeekHdr
    \/ BuildHeader
    \/ BuildSync
    \/ BuildRename
    \/ OpenTarget

Spec == Init /\ [][Next]_vars

-----------------------------------------------------------------------------
(* SpecOpen: Open as a function of the file at the path.  The files are    *)
(* the ones a build leaves, and copies of them damaged the way the         *)
(* repository's tests damage a file (TestCorruptedDB, TestErrors,          *)
(* TestExtra): a header field overwritten, the file cut short.             *)

\* The bytes img with the bytes at 0-based offset off replaced by field.
WithField(img, off, field) == WriteAt(img, off, field)

\* A compression code that is none of 0, 1, 2.
BadCompression == 99

\* An entry count whose index table cannot fit in the files of the model.
BadNumEntries == 100

\* The length of a file cut inside its header.
ShortLen == 9

\* A version that is not FileVersion (TestErrorsMore).
BadVersion == 999

DamagedHeaders(img) ==
    { WithField(img, 44, PutLE(BadCompression, 4)),
      WithField(img, 8, PutLE(BadVersion, 4)),
      WithField(img, 16, PutLE(BadNumEntries, 8)),
      WithField(img, 0, <<78, 79, 84>>),
      SubSeq(img, 1, ShortLen) }

InitOpen ==
    /\ tree \in Trees
    /\ opts \in Options
    /\ \E img \in {BuildImage(tree, opts)} \cup DamagedHeaders(BuildImage(tree, opts)) :
        disk = [target |-> File(img), tmp |-> NoFile]
    /\ BuildIdle
    /\ openRes = NoResult
    /\ ReaderIdle
    /\ ArchiveIdle
    /\ ThreadsIdle

\* Open(path).
OpenPath ==
    /\ openRes = NoResult
    /\ openRes' = Open(disk.target)
    /\ UNCHANGED <<threadVars, archiveVars, inputVars, buildVars, readerVars>>

NextOpen == OpenPath

SpecOpen == InitOpen /\ [][NextOpen]_vars

-----------------------------------------------------------------------------
(* SpecReader: the methods of a reader.  The reader is the MMAPDB that     *)
(* lines 90-104 of Open fill in from a mapping; the mappings are the files *)
(* a build leaves and copies of them with one index entry or the entry     *)
(* count damaged (TestPanicReproduction).  res and the Prefix variables    *)
(* describe the last call.  GetRaw, Find and Prefix leave every field of   *)
(* the reader as it is, so the caller makes one of them on the open reader *)
(* and one more after each Close: a longer sequence meets no other reader. *)
(* Close is called by the caller between two calls, also on a reader that  *)
(* is closed already, and by the callback of a running Prefix, inside the  *)
(* turn of the loop that calls it.                                         *)

\* The options that give different files: the cutover matters in auto mode.
ReaderOptions ==
    { o \in Options : o.Compression # 0 => o.SizeCutover = 0 }

\* 10000000000 as a uint64: the offset TestPanicReproduction stores.
FarOffset == <<0, 228, 11, 84, 2, 0, 0, 0>>

\* 2^64 - 1 as a uint64.
LastOffset == <<255, 255, 255, 255, 255, 255, 255, 255>>

\* The 0-based file offset of index entry i in a file a build left.
EntryAt(i) == headerSize + i * indexEntrySize

\* Copies of img, a file of n >= 1 entries, with the index entry that the
\* binary search reads first damaged: a key offset far past the end, a key
\* offset whose sum with the length wraps, a value length as long as the
\* file; and a copy whose header counts more entries than the file holds.
DamagedIndex(img, n) ==
    IF n = 0 THEN {}
    ELSE { WithField(img, EntryAt(n \div 2), FarOffset),
           WithField(img, EntryAt(n \div 2), LastOffset),
           WithField(img, EntryAt(n \div 2) + 20, PutLE(Len(img), 4)),
           WithField(img, 16, PutLE(BadNumEntries, 8)) }

\* Copies of img with another compression code in the header than the one
\* of the build: the stored bytes are then read with a codec that did not
\* write them.
Recoded(img) ==
    { WithField(img, 44, PutLE(c, 4)) :
        c \in {compNone, compZstd, compS2, BadCompression} }

\* The keys looked up and the prefixes walked: the keys of KeyUniverse, "c"
\* (never stored) and "aa" (between "a" and "ab").
ProbeKeys == { KeyUniverse[i] : i \in 1..Len(KeyUniverse) } \cup { <<99>> }

Prefixes == ProbeKeys \cup { <<97, 97>> }

InitReader ==
    /\ tree \in Trees
    /\ opts \in ReaderOptions
    /\ \E img \in {BuildImage(tree, opts)}
                  \cup DamagedIndex(BuildImage(tree, opts), Len(tree))
                  \cup Recoded(BuildImage(tree, opts)) :
        /\ disk = [target |-> File(img), tmp |-> NoFile]
        /\ db = OpenFields(img)
    /\ BuildIdle
    /\ openRes = NoResult
    /\ res = NoCall
    /\ PrefixIdle
    /\ ArchiveIdle
    /\ ThreadsIdle

\* A call other than Prefix: the Prefix variables describe no call.
ForgetPrefix ==
    /\ ppc' = "idle"
    /\ pprefix' = <<>>
    /\ pi' = 0
    /\ visited' = <<>>
    /\ reads' = <<>>
    /\ stopped' = FALSE

\* No query has been made since the reader was opened or closed.
Fresh == ppc = "idle" /\ res.op \in {"none", "Close"}

\* db.GetRaw(key).
CallGetRaw ==
    /\ Fresh
    /\ \E key \in ProbeKeys :
        res' = [op |-> "GetRaw", key |-> key, r |-> GetRaw(db, key)]
    /\ ForgetPrefix
    /\ UNCHANGED <<threadVars, archiveVars, inputVars, buildVars, openRes, db>>

\* db.Find(key, dst).
CallFind ==
    /\ Fresh
    /\ \E key \in ProbeKeys :
        res' = [op |-> "Find", key |-> key, r |-> Find(db, key)]
    /\ ForgetPrefix
    /\ UNCHANGED <<threadVars, archiveVars, inputVars, buildVars, openRes, db>>

\* db.Close() by the caller between two calls: while Prefix runs the
\* caller is in its callback, whose Close is part of PrefixStep.  Unmapping
\* a mapping that is already nil changes nothing; res records that Close
\* returned, not its error.
CallClose ==
    /\ ppc # "loop"
    /\ db' = CloseFields(db)
    /\ res' = [op |-> "Close", key |-> <<>>, r |-> [panic |-> FALSE]]
    /\ ForgetPrefix
    /\ UNCHANGED <<threadVars, archiveVars, inputVars, buildVars, openRes>>

\* Prefix going on to the next entry whatever cb returned.
AfterVisitNoBreak(cont, i) == [pc |-> "loop", i |-> i + 1]

\* The state of Prefix after cb returned cont for entry i, lines 161-163.
AfterVisit(cont, i) ==
    IF cont THEN [pc |-> "loop", i |-> i + 1] ELSE [pc |-> "done", i |-> i]

\* db.Prefix(prefix, cb) up to its loop: line 155.
PrefixStart ==
    /\ Fresh
    /\ \E prefix \in Prefixes :
        LET f == findIndex(db, prefix)
        IN  /\ pprefix' = prefix
            /\ ppc' = IF f.panic THEN "panic" ELSE "loop"
            /\ pi' = IF f.panic THEN 0 ELSE f.idx
    /\ visited' = <<>>
    /\ reads' = <<>>
    /\ stopped' = FALSE
    /\ UNCHANGED <<threadVars, archiveVars, inputVars, buildVars, openRes, db, res>>

\* One turn of the loop of Prefix, lines 156-164.  The callback is given
\* the slices made before it is called (line 161); it may call db.Close()
\* before it returns, and returns cont.
PrefixStep ==
    /\ ppc = "loop"
    /\ IF pi >= db.num
       THEN /\ ppc' = "done"
            /\ UNCHANGED <<pi, visited, reads, stopped, db, res>>
       ELSE LET k == getKeySlice(db, pi)
                v == getValSlice(db, pi)
            IN  IF k.panic
                THEN /\ ppc' = "panic"
                     /\ reads' = Append(reads, pi)
                     /\ UNCHANGED <<pi, visited, stopped, db, res>>
                ELSE IF ~HasPrefix(k.bytes, pprefix)
                THEN /\ ppc' = "done"
                     /\ reads' = Append(reads, pi)
                     /\ UNCHANGED <<pi, visited, stopped, db, res>>
                ELSE IF v.panic
                THEN /\ ppc' = "panic"
                     /\ reads' = reads \o <<pi, pi>>
                     /\ UNCHANGED <<pi, visited, stopped, db, res>>
                ELSE \E cont \in BOOLEAN : \E closes \in BOOLEAN :
                     /\ visited' = Append(visited, [k |-> k.bytes, v |-> v.bytes])
                     /\ reads' = reads \o <<pi, pi>>
                     /\ db' = IF closes THEN CloseFields(db) ELSE db
                     /\ res' = IF closes
                               THEN [op |-> "Close", key |-> <<>>,
                                     r |-> [panic |-> FALSE]]
                               ELSE res
                     /\ stopped' = ~cont
                     /\ ppc' = AfterVisit(cont, pi).pc
                     /\ pi' = AfterVisit(cont, pi).i
    /\ UNCHANGED <<threadVars, archiveVars, inputVars, buildVars, openRes, pprefix>>

NextReader ==
    \/ CallGetRaw
    \/ CallFind
    \/ CallClose
    \/ PrefixStart
    \/ PrefixStep

SpecReader == InitReader /\ [][NextReader]_vars

-----------------------------------------------------------------------------
(* SpecArchive: the archive codec, ZipEncrypt(dst, src, key) and           *)
(* UnzipDecrypt(dst, src, key).  qwick.go does not hold their code (the   *)
(* test TestZipUnzip and the README call them); they are modelled from     *)
(* section 4.5 of the specification: the source is cut into                *)
(* chunks, each chunk is s2-compressed, encrypted with a stream cipher and *)
(* followed by a tag over the ciphertext; decrypt verifies the tag of a    *)
(* chunk before it decrypts it.  The cipher, the key derivation and the    *)
(* authenticator are small keyed functions with the shape of the real ones *)
(* (a keystream XORed onto the data, a polynomial evaluated at a point     *)
(* derived from key and nonce).                                            *)

\* Master key, nonce and tag lengths in bytes.
KeySize == 32

NonceSize == 16

TagSize == 16

\* Plaintext bytes per chunk (1 MiB in the specification).
ChunkSize == 2

\* Longest source file.
MaxPlain == 5

\* Byte i (0-based) of the keystream of the cipher under master and nonce.
KeyStreamByte(master, nonce, i) ==
    (7 * master[(i % KeySize) + 1] + 13 * nonce[(i % NonceSize) + 1]
        + 31 * i + 99) % 256

\* AES-256-CTR(master, nonce, data): the keystream XORed onto data; the same
\* operation encrypts and decrypts.
CTR(master, nonce, data) ==
    [i \in 1..Len(data) |-> Xor(data[i], KeyStreamByte(master, nonce, i - 1))]

\* HKDF-SHA256(ikm = master, salt = nonce, info = "poly1305", L = 32): the
\* one-time authenticator key.
PolyKey(master, nonce) ==
    [i \in 1..KeySize |->
        (3 * master[i] + 5 * nonce[((i - 1) % NonceSize) + 1] + i) % 256]

\* The modulus of the authenticator's polynomial.
PolyModulus == 8191

RECURSIVE Weight(_)
Weight(v) ==
    IF v = <<>> THEN 0 ELSE (v[1] + 3 * Weight(Tail(v))) % PolyModulus

\* The polynomial of the authenticator over the bytes of c at the point r.
RECURSIVE PolyEval(_, _)
PolyEval(c, r) ==
    IF c = <<>> THEN 0
    ELSE ((PolyEval(SubSeq(c, 1, Len(c) - 1), r) + c[Len(c)] + 1) * r)
            % PolyModulus

\* Poly1305(k, c): the first half of k gives the point r, the second half
\* the pad s added to the polynomial; the tag is 16 bytes.
Poly1305(k, c) ==
    LET r == 1 + (Weight(SubSeq(k, 1, 16)) % (PolyModulus - 1))
        s == Weight(SubSeq(k, 17, 32))
    IN  PutLE((PolyEval(c, r) + s) % PolyModulus, TagSize)

\* The chunk of the source that starts at offset pos.
SourceChunk(src, pos) ==
    Slice(src, pos, IF pos + ChunkSize < Len(src) THEN pos + ChunkSize
                                                  ELSE Len(src))

\* Encrypt steps 1-6 with the tag taken over the compressed plaintext
\* instead of the ciphertext.
SealChunkTagPlain(master, nonce, p) ==
    LET c0 == S2Encode(p)
        c == CTR(master, nonce, c0)
        t == Poly1305(PolyKey(master, nonce), c0)
    IN  nonce \o PutLE(Len(c), 4) \o c \o t

\* Encrypt steps 1-6 for the chunk p: nonce, u32_LE(len(C)), C, T.
SealChunk(master, nonce, p) ==
    LET c0 == S2Encode(p)
        c == CTR(master, nonce, c0)
        t == Poly1305(PolyKey(master, nonce), c)
    IN  nonce \o PutLE(Len(c), 4) \o c \o t

\* The frame of the chunk at offset pos of a: [complete, nonce, c, t, next].
\* Decrypt steps 1-2: at least 20 bytes of header, then size + 16 more.
Frame(a, pos) ==
    LET incomplete == [complete |-> FALSE, nonce |-> <<>>, c |-> <<>>,
                       t |-> <<>>, next |-> pos]
        sizeBytes == Slice(a, pos + NonceSize, pos + NonceSize + 4)
    IN  IF Len(a) - pos < NonceSize + 4 \/ ~IsSmall(sizeBytes) THEN incomplete
        ELSE LET size == SmallVal(sizeBytes)
                 body == pos + NonceSize + 4
             IN  IF Len(a) - body < size + TagSize THEN incomplete
                 ELSE [complete |-> TRUE,
                       nonce |-> Slice(a, pos, pos + NonceSize),
                       c |-> Slice(a, body, body + size),
                       t |-> Slice(a, body + size, body + size + TagSize),
                       next |-> body + size + TagSize]

\* Decrypt step 3-4: the tag recomputed over the ciphertext equals the tag
\* of the chunk.
TagVerifies(master, fr) == Poly1305(PolyKey(master, fr.nonce), fr.c) = fr.t

\* Decrypt steps 1-5 with the plaintext produced before the tag is
\* compared: a chunk whose tag fails still yields its plaintext.
OpenChunkDecryptFirst(master, a, pos) ==
    LET fr == Frame(a, pos)
        d == S2Decode(CTR(master, fr.nonce, fr.c))
    IN  IF ~fr.complete
            THEN [err |-> "Truncated", plain |-> <<>>, next |-> pos]
        ELSE IF ~d.ok
            THEN [err |-> "DecompressionFailed", plain |-> <<>>, next |-> pos]
        ELSE IF ~TagVerifies(master, fr)
            THEN [err |-> "AuthenticationFailed", plain |-> d.out, next |-> pos]
        ELSE [err |-> "", plain |-> d.out, next |-> fr.next]

\* Decrypt steps 1-5 for the chunk at offset pos: [err, plain, next]; plain
\* is what is appended to the output.
OpenChunk(master, a, pos) ==
    LET fr == Frame(a, pos)
    IN  IF ~fr.complete
            THEN [err |-> "Truncated", plain |-> <<>>, next |-> pos]
        ELSE IF ~TagVerifies(master, fr)
            THEN [err |-> "AuthenticationFailed", plain |-> <<>>, next |-> pos]
        ELSE LET d == S2Decode(CTR(master, fr.nonce, fr.c))
             IN  IF ~d.ok
                 THEN [err |-> "DecompressionFailed", plain |-> <<>>,
                       next |-> pos]
                 ELSE [err |-> "", plain |-> d.out, next |-> fr.next]

\* The key of TestZipUnzip (bytes 0..31), its wrong key (255, then zeros)
\* and a key that is one byte short.
TestKey == [i \in 1..KeySize |-> i - 1]

WrongKey == [i \in 1..KeySize |-> IF i = 1 THEN 255 ELSE 0]

ShortKey == SubSeq(TestKey, 1, KeySize - 1)

Keys == {TestKey, WrongKey, ShortKey}

\* The nonces encrypt may draw.
Nonces == { [i \in 1..NonceSize |-> n + i] : n \in {16, 160} }

\* The source files: the first bytes of the text of TestZipUnzip ("Hello,").
SourceText == <<72, 101, 108, 108, 111, 44, 32, 81>>

Plaintexts == { SubSeq(SourceText, 1, n) : n \in 0..MaxPlain }

\* The offsets of the archive that hold a nonce, a ciphertext or a tag (not
\* a length field), chunk by chunk from offset pos.
RECURSIVE SealedOffsets(_, _)
SealedOffsets(a, pos) ==
    LET fr == Frame(a, pos)
    IN  IF ~fr.complete THEN {}
        ELSE ((pos..(fr.next - 1)) \ ((pos + NonceSize)..(pos + NonceSize + 3)))
                \cup SealedOffsets(a, fr.next)

InitArchive ==
    /\ asrc \in Plaintexts
    /\ ekey \in Keys
    /\ arch = <<>>
    /\ epos = 0
    /\ tamper = "none"
    /\ dkey = <<>>
    /\ dpos = 0
    /\ adst = <<>>
    /\ apc = "encrypt"
    /\ aerr = ""
    /\ tree = <<>>
    /\ opts = [Compression |-> 0, SizeCutover |-> 0]
    /\ disk = [target |-> NoFile, tmp |-> NoFile]
    /\ BuildIdle
    /\ openRes = NoResult
    /\ ReaderIdle
    /\ ThreadsIdle

\* encrypt rejects a key that is not 32 bytes long.
EncryptBadKey ==
    /\ apc = "encrypt"
    /\ Len(ekey) # KeySize
    /\ apc' = "done"
    /\ aerr' = "InvalidKey"
    /\ UNCHANGED <<asrc, ekey, arch, epos, tamper, dkey, dpos, adst>>
    /\ UNCHANGED <<threadVars, inputVars, buildVars, openRes, readerVars>>

\* encrypt reads the next chunk of the source and appends its sealed form.
EncryptChunk ==
    /\ apc = "encrypt"
    /\ Len(ekey) = KeySize
    /\ epos < Len(asrc)
    /\ \E nonce \in Nonces :
        LET p == SourceChunk(asrc, epos)
        IN  /\ arch' = arch \o SealChunk(ekey, nonce, p)
            /\ epos' = epos + Len(p)
    /\ UNCHANGED <<asrc, ekey, tamper, dkey, dpos, adst, apc, aerr>>
    /\ UNCHANGED <<threadVars, inputVars, buildVars, openRes, readerVars>>

\* encrypt meets the end of the source and returns.
EncryptEnd ==
    /\ apc = "encrypt"
    /\ Len(ekey) = KeySize
    /\ epos = Len(asrc)
    /\ apc' = "sealed"
    /\ UNCHANGED <<asrc, ekey, arch, epos, tamper, dkey, dpos, adst, aerr>>
    /\ UNCHANGED <<threadVars, inputVars, buildVars, openRes, readerVars>>

\* Between encrypt and decrypt one bit of a nonce, a ciphertext or a tag of
\* the archive changes.
FlipBit ==
    /\ apc = "sealed"
    /\ tamper = "none"
    /\ \E off \in SealedOffsets(arch, 0), bit \in {1, 128} :
        arch' = [arch EXCEPT ![off + 1] = Xor(arch[off + 1], bit)]
    /\ tamper' = "flip"
    /\ UNCHANGED <<asrc, ekey, epos, dkey, dpos, adst, apc, aerr>>
    /\ UNCHANGED <<threadVars, inputVars, buildVars, openRes, readerVars>>

\* Between encrypt and decrypt the archive loses its end.
CutShort ==
    /\ apc = "sealed"
    /\ tamper = "none"
    /\ \E n \in 0..(Len(arch) - 1) : arch' = SubSeq(arch, 1, n)
    /\ tamper' = "cut"
    /\ UNCHANGED <<asrc, ekey, epos, dkey, dpos, adst, apc, aerr>>
    /\ UNCHANGED <<threadVars, inputVars, buildVars, openRes, readerVars>>

\* decrypt is called with a key: it rejects one that is not 32 bytes long,
\* else creates the destination.
DecryptOpen ==
    /\ apc = "sealed"
    /\ \E k \in Keys :
        /\ dkey' = k
        /\ apc' = IF Len(k) = KeySize THEN "decrypt" ELSE "done"
        /\ aerr' = IF Len(k) = KeySize THEN "" ELSE "InvalidKey"
    /\ dpos' = 0
    /\ adst' = <<>>
    /\ UNCHANGED <<asrc, ekey, arch, epos, tamper>>
    /\ UNCHANGED <<threadVars, inputVars, buildVars, openRes, readerVars>>

\* decrypt handles the chunk at dpos, or meets the end of the archive.
DecryptChunk ==
    /\ apc = "decrypt"
    /\ IF dpos = Len(arch)
       THEN /\ apc' = "done"
            /\ UNCHANGED <<dpos, adst, aerr>>
       ELSE LET r == OpenChunk(dkey, arch, dpos)
            IN  /\ adst' = adst \o r.plain
                /\ dpos' = r.next
                /\ aerr' = r.err
                /\ apc' = IF r.err = "" THEN "decrypt" ELSE "done"
    /\ UNCHANGED <<asrc, ekey, arch, epos, tamper, dkey>>
    /\ UNCHANGED <<threadVars, inputVars, buildVars, openRes, readerVars>>

NextArchive ==
    \/ EncryptBadKey
    \/ EncryptChunk
    \/ EncryptEnd
    \/ FlipBit
    \/ CutShort
    \/ DecryptOpen
    \/ DecryptChunk

SpecArchive == InitArchive /\ [][NextArchive]_vars

-----------------------------------------------------------------------------
(* SpecParallel: GetRaw, Find and Prefix called by several goroutines on   *)
(* one open reader, with no Close.  The goroutines share the reader and    *)
(* the package variable zstdDec.  The methods of the reader only read its  *)
(* fields and the mapping: a GetRaw, and a Find up to its first call of    *)
(* zstdDec.DecodeAll, is one step, and a Prefix takes one step per turn of *)
(* its loop.  DecodeAll works on state of the decoder: it receives one of  *)
(* the block decoders from the channel of the decoder, decodes into the    *)
(* frame of that block decoder one frame at a time, and sends the block    *)
(* decoder back when it returns; each of these is a step, so the steps of  *)
(* the other goroutines fall between them.  The channel and the frames are *)
(* those of github.com/klauspost/compress v1.18.2 (go.mod).  The callback  *)
(* of Prefix always returns true.  The readers are those over the sources  *)
(* with the keys "a", "ab", "b" and values of one and two bytes.           *)

\* The goroutines.
Threads == {"g1", "g2"}

\* The keys and prefixes the goroutines ask for: "a" and "b", which a
\* source may hold, and "c", which none holds.
ParKeys == { <<97>>, <<98>>, <<99>> }

\* Most block decoders zstd.NewReader(nil) makes: one per processor the
\* Go runtime uses (and four at most).
MaxDecoders == 2

\* zstd.NewReader(nil), line 58, on n processors: n block decoders, all in
\* the (buffered, first in first out) channel, each with an empty frame.
NewReader(n) ==
    [free |-> [d \in 1..n |-> d],
     frames |-> [d \in 1..n |-> [src |-> <<>>, pos |-> 0, out |-> <<>>]]]

\* A goroutine that is in no call.  val holds the stored bytes Find passes
\* to DecodeAll, dec the block decoder DecodeAll holds, z what DecodeAll
\* returns.
NoThreadCall ==
    [op |-> "none", key |-> <<>>, pc |-> "idle", i |-> 0, r |-> <<>>,
     val |-> <<>>, dec |-> 0, z |-> [ok |-> TRUE, out |-> <<>>]]

\* A channel of block decoders that still offers its first block decoder
\* after a DecodeAll received it.
AfterReceiveKept(free) == free

\* The channel of block decoders after DecodeAll received the first.
AfterReceive(free) == Tail(free)

\* The entries Prefix hands to an always-true callback from index entry i
\* on, lines 156-164.
RECURSIVE PrefixFrom(_, _, _)
PrefixFrom(d, prefix, i) ==
    IF i >= d.num THEN <<>>
    ELSE LET k == getKeySlice(d, i)
             v == getValSlice(d, i)
         IN  IF k.panic \/ v.panic THEN <<>>
             ELSE IF ~HasPrefix(k.bytes, prefix) THEN <<>>
             ELSE <<[k |-> k.bytes, v |-> v.bytes]>>
                    \o PrefixFrom(d, prefix, i + 1)

\* What a call returns (for Prefix: what its callback is given) when it is
\* the only call on the reader d.
Alone(d, op, key) ==
    IF op = "GetRaw" THEN GetRaw(d, key)
    ELSE IF op = "Find" THEN Find(d, key)
    ELSE PrefixFrom(d, key, findIndex(d, key).idx)

InitParallel ==
    /\ tree \in { t \in BuildTrees :
                    \A i \in 1..Len(t) : t[i].k # <<>> /\ t[i].v # <<>> }
    /\ opts \in ReaderOptions
    /\ disk = [target |-> File(BuildImage(tree, opts)), tmp |-> NoFile]
    /\ db = OpenFields(BuildImage(tree, opts))
    /\ th = [t \in Threads |-> NoThreadCall]
    /\ zdec \in { NewReader(n) : n \in 1..MaxDecoders }
    /\ BuildIdle
    /\ openRes = NoResult
    /\ res = NoCall
    /\ PrefixIdle
    /\ ArchiveIdle

\* Goroutine t calls db.GetRaw(key).
ParGetRaw(t) ==
    /\ th[t].pc = "idle"
    /\ \E key \in ParKeys :
        th' = [th EXCEPT ![t] = [NoThreadCall EXCEPT
                    !.op = "GetRaw", !.key = key, !.pc = "done",
                    !.r = GetRaw(db, key)]]
    /\ UNCHANGED <<zdec, archiveVars, inputVars, buildVars, openRes, readerVars>>

\* Goroutine t calls db.Find(key, dst) with a dst of its own, lines
\* 125-151, up to the call of zstdDec.DecodeAll: Find returns before it
\* for a key that is not stored, for a code other than 0 and 1, and in auto
\* mode for bytes s2 accepts.
ParFind(t) ==
    /\ th[t].pc = "idle"
    /\ \E key \in ParKeys :
        LET g == GetRaw(db, key)
            c == [NoThreadCall EXCEPT !.op = "Find", !.key = key]
        IN  IF g.panic
                THEN th' = [th EXCEPT ![t] = [c EXCEPT !.pc = "done",
                                                       !.r = Panic]]
            ELSE IF ~g.ok
                THEN th' = [th EXCEPT ![t] = [c EXCEPT !.pc = "done",
                        !.r = [panic |-> FALSE, ok |-> FALSE, val |-> <<>>,
                               err |-> FALSE]]]
            ELSE IF db.compression \notin {compNone, compZstd}
                    \/ (db.compression = compNone /\ S2Decode(g.val).ok)
                THEN LET r == DecodeWith(db.compression, g.val,
                                         S2Decode(g.val), c.z)
                     IN  th' = [th EXCEPT ![t] = [c EXCEPT !.pc = "done",
                            !.r = [panic |-> FALSE, ok |-> TRUE,
                                   val |-> r.val, err |-> r.err]]]
            ELSE th' = [th EXCEPT ![t] = [c EXCEPT !.pc = "receive",
                                                   !.val = g.val]]
    /\ UNCHANGED <<zdec, archiveVars, inputVars, buildVars, openRes, readerVars>>

\* DecodeAll of goroutine t receives a block decoder from the channel (it
\* waits while the channel is empty) and gives the input to its frame.
ParReceive(t) ==
    /\ th[t].pc = "receive"
    /\ zdec.free # <<>>
    /\ LET d == Head(zdec.free)
       IN  /\ zdec' = [free |-> AfterReceive(zdec.free),
                       frames |-> [zdec.frames EXCEPT
                           ![d] = [src |-> th[t].val, pos |-> 0, out |-> <<>>]]]
           /\ th' = [th EXCEPT ![t].pc = "frame", ![t].dec = d]
    /\ UNCHANGED <<archiveVars, inputVars, buildVars, openRes, readerVars>>

\* DecodeAll of goroutine t decodes the next frame of the input of its
\* block decoder, or meets the end of the input or an error.
ParFrame(t) ==
    /\ th[t].pc = "frame"
    /\ LET d == th[t].dec
           f == zdec.frames[d]
           r == ZstdFrameAt(f.src, f.pos, Len(f.out))
       IN  IF r.nil
               THEN /\ th' = [th EXCEPT ![t].pc = "send",
                                        ![t].z = [ok |-> FALSE, out |-> <<>>]]
                    /\ UNCHANGED zdec
           ELSE IF ~r.ok \/ r.last
               THEN /\ th' = [th EXCEPT ![t].pc = "send",
                                        ![t].z = [ok |-> r.ok,
                                                  out |-> f.out \o r.out]]
                    /\ UNCHANGED zdec
           ELSE /\ zdec' = [zdec EXCEPT !.frames[d] =
                                [f EXCEPT !.pos = r.pos, !.out = f.out \o r.out]]
                /\ UNCHANGED th
    /\ UNCHANGED <<archiveVars, inputVars, buildVars, openRes, readerVars>>

\* DecodeAll of goroutine t returns: its deferred function clears the
\* frame and sends the block decoder back, and Find returns what its
\* switch makes of the outcome.
ParSend(t) ==
    /\ th[t].pc = "send"
    /\ LET c == th[t]
           r == DecodeWith(db.compression, c.val, S2Decode(c.val), c.z)
       IN  /\ zdec' = [free |-> Append(zdec.free, c.dec),
                       frames |-> [zdec.frames EXCEPT ![c.dec] =
                                      [src |-> <<>>, pos |-> 0, out |-> <<>>]]]
           /\ th' = [th EXCEPT ![t].pc = "done", ![t].dec = 0,
                               ![t].r = [panic |-> FALSE, ok |-> TRUE,
                                         val |-> r.val, err |-> r.err]]
    /\ UNCHANGED <<archiveVars, inputVars, buildVars, openRes, readerVars>>

\* Goroutine t calls db.Prefix(prefix, cb): line 155.
ParPrefixStart(t) ==
    /\ th[t].pc = "idle"
    /\ \E prefix \in ParKeys :
        th' = [th EXCEPT ![t] = [NoThreadCall EXCEPT
                    !.op = "Prefix", !.key = prefix, !.pc = "loop",
                    !.i = findIndex(db, prefix).idx]]
    /\ UNCHANGED <<zdec, archiveVars, inputVars, buildVars, openRes, readerVars>>

\* One turn of the loop of the Prefix of goroutine t, lines 156-164.
ParPrefixStep(t) ==
    /\ th[t].pc = "loop"
    /\ LET c == th[t]
           k == getKeySlice(db, c.i)
           v == getValSlice(db, c.i)
       IN  IF c.i >= db.num
               THEN th' = [th EXCEPT ![t].pc = "done"]
           ELSE IF k.panic \/ v.panic
               THEN th' = [th EXCEPT ![t].pc = "done"]
           ELSE IF ~HasPrefix(k.bytes, c.key)
               THEN th' = [th EXCEPT ![t].pc = "done"]
           ELSE th' = [th EXCEPT ![t].r = Append(c.r, [k |-> k.bytes,
                                                       v |-> v.bytes]),
                                 ![t].i = c.i + 1]
    /\ UNCHANGED <<zdec, archiveVars, inputVars, buildVars, openRes, readerVars>>

\* The call of goroutine t has returned; t may call again.
ParReturn(t) ==
    /\ th[t].pc = "done"
    /\ th' = [th EXCEPT ![t] = NoThreadCall]
    /\ UNCHANGED <<zdec, archiveVars, inputVars, buildVars, openRes, readerVars>>

NextParallel ==
    \E t \in Threads :
        \/ ParGetRaw(t)
        \/ ParFind(t)
        \/ ParReceive(t)
        \/ ParFrame(t)
        \/ ParSend(t)
        \/ ParPrefixStart(t)
        \/ ParPrefixStep(t)
        \/ ParReturn(t)

SpecParallel == InitParallel /\ [][NextParallel]_vars

-----------------------------------------------------------------------------
(* The claims.                                                             *)

\* The eight bytes BuildWithOptions writes at offset 0 of every file.
WrittenMagic == SubSeq(HeaderBytes(0, [Compression |-> 0, SizeCutover |-> 0]), 1, 8)

\* The file a complete build of tree under opts leaves.
NewImage == File(BuildImage(tree, opts))

\* The keys of tree.
TreeKeys == { tree[i].k : i \in 1..Len(tree) }

\* An Open of the target path has returned after the build returned.
OpenedAfterBuild ==
    bpc = "done" /\ openRes.err # "none" /\ openRes.m = disk.target

\* C1: after a build that succeeds, Open of the target succeeds, Find
\* returns every stored value without error, GetRaw returns the stored
\* (encoded) bytes, and both miss every key that was not stored.
C1_RoundTrip ==
    (bres = "ok" /\ faults = <<>> /\ OpenedAfterBuild) =>
        /\ openRes.err = ""
        /\ \A i \in 1..Len(tree) :
            LET f == Find(openRes.db, tree[i].k)
                g == GetRaw(openRes.db, tree[i].k)
            IN  /\ ~f.panic /\ f.ok /\ ~f.err /\ f.val = tree[i].v
                /\ ~g.panic /\ g.ok /\ g.val = EncodeValue(opts, tree[i].v)
        /\ \A k \in ProbeKeys \ TreeKeys :
            LET f == Find(openRes.db, k)
                g == GetRaw(openRes.db, k)
            IN  ~f.panic /\ ~f.ok /\ ~g.panic /\ ~g.ok

\* The reader of SpecReader is open over an undamaged file built from tree.
WellFormed == db.mdata = BuildImage(tree, opts)

\* The keys of the entries given to the callback so far.
VisitedKeys == [i \in 1..Len(visited) |-> visited[i].k]

\* The keys of tree that start with the prefix of the call, ascending.
ExpectedKeys ==
    LET Matches(e) == HasPrefix(e.k, pprefix)
        sel == SelectSeq(tree, Matches)
    IN  [i \in 1..Len(sel) |-> sel[i].k]

\* C2: over a file whose index is strictly ascending, Prefix never
\* panics, the keys it has visited are at every moment the first keys of
\* tree that start with the prefix, in ascending order and each once, and
\* when the callback never returned false it ends having visited all of them.
C2_PrefixSound ==
    ppc # "idle" =>
        \/ /\ ppc # "panic"
           /\ Len(VisitedKeys) <= Len(ExpectedKeys)
           /\ VisitedKeys = SubSeq(ExpectedKeys, 1, Len(VisitedKeys))
           /\ (ppc = "done" /\ ~stopped) => VisitedKeys = ExpectedKeys
        \/ ~WellFormed

\* A walk over "a", "ab", "b" with the stored key "a" as the prefix has ended
\* after visiting "a" and "ab".
C2_Witness ==
    /\ ppc = "done" /\ ~stopped
    /\ pprefix = <<97>>
    /\ Len(tree) = 3 /\ tree[3].k = <<98>>
    /\ VisitedKeys = << <<97>>, <<97, 98>> >>
    /\ WellFormed

\* C3: once the callback has returned false, Prefix has ended, the callback
\* was called for nothing after that entry, and no index entry after it was
\* read: the entries read are the visited ones, the last of them entry pi.
C3_EarlyStop ==
    stopped =>
        /\ ppc = "done"
        /\ Len(visited) >= 1
        /\ Len(reads) = 2 * Len(visited)
        /\ \A j \in 1..Len(reads) : reads[j] <= pi
        /\ reads[Len(reads)] = pi

\* The callback returned false on the first of three entries that all have
\* the prefix.
C3_Witness ==
    /\ stopped
    /\ pprefix = <<>>
    /\ Len(tree) = 3
    /\ Len(visited) = 1
    /\ WellFormed

\* C4: the target path holds, and an Open of it maps, only no file, the
\* complete file of the previous build or the complete file of this build.
C4_AtomicBuild ==
    /\ disk.target \in {NoFile, OldImage} \/ disk.target = NewImage
    /\ openRes.err # "none" =>
        (openRes.m \in {NoFile, OldImage} \/ openRes.m = NewImage)

\* The I/O calls on the temporary file that can fail.
TmpFileFaults ==
    {"writeStub", "seekBlobs", "seekKey", "writeKey", "seekVal", "writeVal",
     "seekIndex", "writeIndex", "seekHdr", "writeHdr", "sync"}

\* C5: a build in which a write, seek or sync on the temporary file failed
\* returns an error and leaves the target as it was; a build that returns
\* success has left the complete file at the target.
C5_BuildFailure ==
    /\ (bpc = "done" /\ \E j \in 1..Len(faults) : faults[j] \in TmpFileFaults) =>
        (bres = "error" /\ disk.target \in {NoFile, OldImage})
    /\ bres = "ok" => disk.target = NewImage

\* C6: on an open reader over a file of at least 64 bytes, whatever its
\* index entries hold, GetRaw, Find and Prefix never panic.
C6_NoPanic ==
    db.mdata # <<>> => (~res.r.panic /\ ppc # "panic")

\* C7: after Close of a reader over an undamaged file, GetRaw, Find and
\* Prefix return and do not panic.
C7_UseAfterClose ==
    (db # NoReader /\ db.mdata = <<>> /\ disk.target = NewImage) =>
        (~res.r.panic /\ ppc # "panic")

\* Open has returned for a file of at least 64 bytes.
OpenedHeader ==
    /\ openRes.err # "none"
    /\ disk.target.exists
    /\ Len(disk.target.bytes) >= headerSize

\* The header fields of the file at the target path, as Open reads them.
TargetHdr == OpenFields(disk.target.bytes).hdr

\* C8: Open of a file of at least 64 bytes returns the bad-magic error
\* exactly when the first 8 bytes of the file are not the magic the builder
\* writes.
C8_MagicCheck ==
    OpenedHeader =>
        (openRes.err = "bad magic"
            <=> SubSeq(disk.target.bytes, 1, 8) # WrittenMagic)

\* C9: Open of a file with the builder's magic whose index table ends past
\* the end of the file returns the invalid-index-size error and no reader.
C9_IndexSize ==
    (/\ OpenedHeader
     /\ SubSeq(disk.target.bytes, 1, 8) = WrittenMagic
     /\ TargetHdr.OffIndex + indexEntrySize * TargetHdr.NumEntries
            > Len(disk.target.bytes)) =>
        (openRes.err = "invalid index size" /\ openRes.db = NoReader)

\* C10: Open of a file whose compression code is not 0, 1 or 2 returns the
\* unsupported-compression error and no reader.
C10_CompressionCode ==
    (OpenedHeader /\ TargetHdr.Compression \notin {0, 1, 2}) =>
        (openRes.err = "unsupported compression" /\ openRes.db = NoReader)

\* C11: Open of a file of at least 64 bytes whose version field is not 1
\* returns an error and no reader.
C11_VersionRejected ==
    (OpenedHeader /\ TargetHdr.Version # FileVersion) =>
        (openRes.err # "" /\ openRes.db = NoReader)

\* Open has returned for a built file whose version field was set to 999.
C11_Witness ==
    /\ OpenedHeader
    /\ TargetHdr.Version = BadVersion
    /\ TargetHdr.NumEntries = Len(tree)
    /\ Len(tree) >= 1

\* Find has returned a present key on the reader as it still is.
FoundByFind == res.op = "Find" /\ ~res.r.panic /\ res.r.ok

\* The bytes stored for the key of the last call.
StoredBytes == GetRaw(db, res.key).val

\* C12: Find on a present key returns an error only on a file whose code is
\* 1 or 2 and whose codec rejects the stored bytes; on a file with code 0 it
\* returns no error and the s2 decoding if s2 accepts the stored bytes, else
\* the zstd decoding if zstd accepts them, else the stored bytes.
C12_DecodeErrors ==
    FoundByFind =>
        LET s == S2Decode(StoredBytes)
            z == ZstdDecode(StoredBytes)
        IN  /\ res.r.err =>
                \/ db.compression = compZstd /\ ~z.ok
                \/ db.compression = compS2 /\ ~s.ok
            /\ db.compression = 0 =>
                /\ ~res.r.err
                /\ s.ok => res.r.val = s.out
                /\ (~s.ok /\ z.ok) => res.r.val = z.out
                /\ (~s.ok /\ ~z.ok) => res.r.val = StoredBytes

\* Find on a file with code 0 has returned stored bytes that neither codec
\* accepts.
C12_Witness ==
    /\ FoundByFind
    /\ db.compression = 0
    /\ StoredBytes = <<120, 121>>
    /\ ~res.r.err
    /\ res.r.val = <<120, 121>>

\* The build has returned success and none of its I/O calls failed: the
\* file at the target then holds what the callbacks of ForEach wrote.
BuiltClean == bpc = "done" /\ bres = "ok" /\ faults = <<>>

\* The bytes the value range of index entry i (0-based) of img holds.
StoredValue(img, i) == getValSlice(OpenFields(img), i).bytes

\* The bytes the key range of index entry i (0-based) of img holds.
StoredKey(img, i) == getKeySlice(OpenFields(img), i).bytes

\* C13: a build with compression 0 and size cutover 0 stores every value as
\* its s2 encoding.
C13_CutoverZero ==
    (BuiltClean /\ opts.Compression = 0 /\ opts.SizeCutover = 0) =>
        \A i \in 1..Len(tree) :
            StoredValue(disk.target.bytes, i - 1) = S2Encode(tree[i].v)

\* C14: over an undamaged file built with any compression mode, the value
\* Prefix passes to the callback with a key is the value the source held for
\* that key, not its stored encoding.
C14_PrefixDecodes ==
    ppc # "idle" =>
        \/ \A j \in 1..Len(visited) :
                \E i \in 1..Len(tree) :
                    tree[i].k = visited[j].k /\ tree[i].v = visited[j].v
        \/ ~WellFormed

\* The number (from j) of the first complete chunk from offset pos of the
\* archive a whose tag does not verify under master; 0 if there is none.
RECURSIVE FirstBadChunk(_, _, _, _)
FirstBadChunk(master, a, pos, j) ==
    LET fr == Frame(a, pos)
    IN  IF ~fr.complete THEN 0
        ELSE IF ~TagVerifies(master, fr) THEN j
        ELSE FirstBadChunk(master, a, fr.next, j + 1)

\* decrypt is running or has returned, after accepting its key.
Decrypting == apc \in {"decrypt", "done"} /\ Len(dkey) = KeySize

\* C15: when chunk j is the first chunk of the archive whose tag does not
\* verify under the key of decrypt, the destination never holds more than
\* the plaintext of the chunks before j, and decrypt ends with
\* AuthenticationFailed and exactly that plaintext written.
C15_ArchiveAuth ==
    LET j == FirstBadChunk(dkey, arch, 0, 1)
    IN  (Decrypting /\ j > 0) =>
            /\ Len(adst) <= (j - 1) * ChunkSize
            /\ adst = SubSeq(asrc, 1, Len(adst))
            /\ apc = "done" =>
                /\ aerr = "AuthenticationFailed"
                /\ adst = SubSeq(asrc, 1, (j - 1) * ChunkSize)

\* decrypt, given the right key, has failed on the second chunk of an
\* archive in which one bit was changed, after writing the first chunk.
C15_Witness ==
    /\ apc = "done"
    /\ tamper = "flip"
    /\ dkey = ekey
    /\ FirstBadChunk(dkey, arch, 0, 1) = 2
    /\ aerr = "AuthenticationFailed"
    /\ Len(asrc) > ChunkSize
    /\ adst = SubSeq(asrc, 1, ChunkSize)

\* C16: decrypt of an archive as encrypt wrote it, with the key of encrypt,
\* ends without error and with the destination equal to the source; the
\* archive of an empty source is empty.
C16_ArchiveRoundTrip ==
    /\ (Decrypting /\ apc = "done" /\ dkey = ekey /\ tamper = "none") =>
            (aerr = "" /\ adst = asrc)
    /\ (apc = "sealed" /\ tamper = "none" /\ asrc = <<>>) => arch = <<>>

\* A source of two full chunks and one more byte has made the round trip.
C16_Witness ==
    /\ apc = "done"
    /\ Decrypting
    /\ dkey = ekey
    /\ tamper = "none"
    /\ Len(asrc) = 2 * ChunkSize + 1
    /\ aerr = ""
    /\ adst = asrc

\* The range [off, off + len) given by two little-endian fields lies inside
\* [lo, hi) in the sense that lo <= off and off + len <= hi.
RangeInside(off, len, lo, hi) ==
    /\ IsSmall(off) /\ IsSmall(len)
    /\ lo <= SmallVal(off)
    /\ SmallVal(off) + SmallVal(len) <= hi

\* The layout of the file img for the source t built under o: the header
\* counts Len(t) entries, the index starts at 64 and the blobs right after
\* it, and index entry i gives, inside the blob area, the key of the i-th
\* leaf and its encoded value.
LayoutOk(img, t, o) ==
    LET d == OpenFields(img)
        n == Len(t)
    IN  /\ Len(img) >= headerSize
        /\ d.hdr.NumEntries = n
        /\ d.hdr.OffIndex = headerSize
        /\ d.hdr.OffBlobs = headerSize + indexEntrySize * n
        /\ Len(img) >= headerSize + indexEntrySize * n
        /\ \A i \in 1..n :
            LET e == readIndex(d, i - 1)
            IN  /\ ~e.panic
                /\ RangeInside(e.koff, e.klen, d.hdr.OffBlobs, Len(img))
                /\ RangeInside(e.voff, e.vlen, d.hdr.OffBlobs, Len(img))
                /\ StoredKey(img, i - 1) = t[i].k
                /\ StoredValue(img, i - 1) = EncodeValue(o, t[i].v)

\* C17: the file a build leaves at the target when it has returned success
\* has the layout of its source: entry count N, index offset 64, blob
\* offset 64 + 24*N, and N index entries in source order whose key and
\* value ranges lie in the blob area and hold the key and the encoded value.
C17_FileLayout ==
    (bpc = "done" /\ bres = "ok") =>
        (disk.target.exists /\ LayoutOk(disk.target.bytes, tree, opts))

\* The codec the options name for a value: 1 is zstd and 2 is s2 whatever
\* the cutover; 0 with a cutover c > 0 is s2 up to c bytes and zstd above.
NamedCodec(o, v) ==
    IF o.Compression = compZstd THEN compZstd
    ELSE IF o.Compression = compS2 THEN compS2
    ELSE IF Len(v) <= o.SizeCutover THEN compS2 ELSE compZstd

\* C18: after a build with compression 1 or 2, or with compression 0 and a
\* cutover above 0, every value range holds the value encoded by the codec
\* the options name, and the header holds the compression code of the
\* options.
C18_CodecChoice ==
    (BuiltClean /\ ~(opts.Compression = 0 /\ opts.SizeCutover = 0)) =>
        /\ OpenFields(disk.target.bytes).hdr.Compression = opts.Compression
        /\ \A i \in 1..Len(tree) :
            StoredValue(disk.target.bytes, i - 1) =
                IF NamedCodec(opts, tree[i].v) = compZstd
                THEN ZstdEncode(tree[i].v)
                ELSE S2Encode(tree[i].v)

\* An auto build with cutover 1 has stored a one-byte value with s2 and a
\* two-byte value with zstd.
C18_Witness ==
    /\ BuiltClean
    /\ opts = [Compression |-> 0, SizeCutover |-> 1]
    /\ Len(tree) = 2
    /\ tree[1].v = <<0>>
    /\ tree[2].v = <<120, 121>>
    /\ StoredValue(disk.target.bytes, 0) = S2Encode(<<0>>)
    /\ StoredValue(disk.target.bytes, 1) = ZstdEncode(<<120, 121>>)

\* The reader as Open filled it in from the file.
OpenedReader == OpenFields(disk.target.bytes)

\* C19: while goroutines call GetRaw, Find and Prefix on one open reader
\* in any interleaving, every field of the reader stays what Open set, and
\* each call that has ended has returned (Prefix: has handed to its
\* callback) what the same call returns on that reader when it runs alone.
C19_ParallelReads ==
    /\ db = OpenedReader
    /\ \A t \in Threads :
        th[t].pc = "done" => th[t].r = Alone(OpenedReader, th[t].op, th[t].key)

\* One goroutine has ended a Find that decoded "xy" with zstdDec while the
\* other is inside DecodeAll for another key, holding a block decoder whose
\* frame has decoded the one-byte value.
C19_Witness ==
    /\ th["g1"].op = "Find" /\ th["g1"].pc = "done"
    /\ th["g1"].r.ok /\ th["g1"].r.val = <<120, 121>>
    /\ th["g2"].op = "Find" /\ th["g2"].pc = "frame"
    /\ th["g2"].key # th["g1"].key
    /\ zdec.frames[th["g2"].dec].out = <<0>>
    /\ db.compression = compZstd

=============================================================================
